---- MODULE Spec2Model ----
(***************************************************************************)
(* Admission-control layer of biance_copy_trading:                         *)
(*   src/src/circuit_breaker.py  CircuitBreaker  (SpecCB)                  *)
(*   src/src/rate_limiter.py     RateLimiter     (SpecRL)                  *)
(*   src/src/circuit_breaker.py  CircuitBreakerManager  (SpecMgr)          *)
(*   src/web/api/services/system_service.py  engine state  (SpecEng)       *)
(*   src/web/api/websocket.py    WebSocketManager  (SpecWS)                *)
(* Time (time.time()) is a discrete clock `now`; one unit is one second.   *)
(***************************************************************************)
EXTENDS Integers, Sequences, FiniteSets, TLC

\* ------------------------------------------------------------------ bounds
NumThreads == 2      \* caller threads
MaxCalls == 5        \* call() invocations explored per breaker
MaxTime == 3         \* the clock runs 0..MaxTime (plus a pending sleep)
MaxHistory == 3      \* entries of weight_history explored
MaxMgrCalls == 2     \* call() invocations explored on a breaker obtained from the manager
NumSockets == 2      \* WebSocket objects
MaxLockSuccesses == 1  \* successful operations explored where reset is studied
MaxLockCalls == 12   \* call() invocations explored where the locks are studied

Threads == 1..NumThreads
NoThread == 0
NoTime == -1         \* last_failure_time = None

\* Constructor arguments explored (circuit_breaker.py:31-38).  The third is
\* spec scenario 1: failure_threshold=3, timeout=5, window_size=10.
BreakerConfigs ==
    { [name |-> "api", failure_threshold |-> 1, success_threshold |-> 2,
       timeout |-> 2, window_size |-> 1],
      [name |-> "api", failure_threshold |-> 2, success_threshold |-> 1,
       timeout |-> 1, window_size |-> 2],
      [name |-> "api", failure_threshold |-> 3, success_threshold |-> 2,
       timeout |-> 5, window_size |-> 10],
      [name |-> "api", failure_threshold |-> 2, success_threshold |-> 2,
       timeout |-> 1, window_size |-> 3] }

\* an exception: its class, its text and what the text carries
NoError == [type |-> "none", text |-> "", breaker |-> "", retry_after |-> 0]

\* errors the wrapped operation raises (any Exception, line 115)
OpErrors ==
    { [type |-> "ConnectionError", text |-> "refused", breaker |-> "", retry_after |-> 0],
      [type |-> "Exception", text |-> "boom", breaker |-> "", retry_after |-> 0] }

\* Constructor arguments explored (rate_limiter.py:22-27); safety_margin is
\* held in percent.  The first is spec scenario 3: weight_limit=100,
\* safety_margin=0.5.  Under the second a request of weight 30 is larger than
\* effective_limit.
LimiterConfigs ==
    { [weight_limit |-> 100, safety_margin |-> 50, window_seconds |-> 2],
      [weight_limit |-> 30, safety_margin |-> 80, window_seconds |-> 3] }

\* weights passed to wait_if_needed
Weights == {20, 30}

\* response_headers.get('X-MBX-USED-WEIGHT-1M'): absent (None) or a string,
\* held as its sequence of characters
NoHeader == [present |-> FALSE, text |-> <<>>]
HeaderTexts ==
    { <<>>, <<"8", "x">>, <<"-", "5">>, <<"5", "0">>, <<"8", "0">> }
HeaderValues == {NoHeader} \cup {[present |-> TRUE, text |-> s] : s \in HeaderTexts}

VARIABLES
    now,                \* time.time()
    \* ---- CircuitBreaker fields
    name, failure_threshold, success_threshold, timeout, window_size,
    state, failure_count, success_count,
    last_failure_time, last_state_change, recent_results,
    total_calls, total_successes, total_failures, total_rejections,
    pc,                 \* per thread: "idle" | "running" (func in flight, line 111)
    admitted_in,        \* per thread: the state its call in flight was admitted in
    func_calls,         \* how often func was invoked (line 111)
    outcome,            \* how the latest finished call() ended for its caller, and the
                        \* state it had been admitted in
    \* ---- RateLimiter fields
    weight_limit, window_seconds, safety_margin, effective_limit,
    weight_history, total_requests, total_weight_used, wait_count, total_wait_time,
    rl_lock,            \* the thread inside `with self.lock` across a sleep, or NoThread
    frame,              \* locals of the latest invocation made under the lock
    \* ---- CircuitBreakerManager fields
    breakers,           \* self.breakers: name -> instance, NoBreaker where absent
    heap,               \* every CircuitBreaker the manager constructed, in order
    mgr_frame,          \* arguments and return value of the latest manager method
    mgr_lock,           \* the thread inside the manager's `with self.lock`, or NoThread
    cb_lock,            \* the thread a manager method holds the breaker's lock for, or NoThread
    \* ---- system_service (web/api/services/system_service.py)
    engine_file,        \* logs/system_state.json: the "engine" entry, or no file
    eng_pc,             \* per thread: where it is in start_engine / stop_engine / restart_engine
    eng_frame,          \* the latest call that returned or raised
    \* ---- WebSocketManager (web/api/websocket.py)
    active_connections, \* list of sockets
    subscriptions,      \* dict: channel -> list of sockets
    accepted,           \* sockets whose accept() has completed
    closed,             \* sockets whose send_json raises
    gone,               \* sockets that disconnect() has been called for
    bc                  \* the broadcast coroutine: its loop position and locals

cfgvars == <<name, failure_threshold, success_threshold, timeout, window_size>>
cbvars == <<state, failure_count, success_count, last_failure_time,
            last_state_change, recent_results,
            total_calls, total_successes, total_failures, total_rejections, pc,
            admitted_in, func_calls, outcome>>
rlcfgvars == <<weight_limit, window_seconds, safety_margin, effective_limit>>
rlvars == <<weight_history, total_requests, total_weight_used, wait_count,
            total_wait_time, rl_lock, frame>>
mgrvars == <<breakers, heap, mgr_frame, mgr_lock, cb_lock>>
engvars == <<engine_file, eng_pc, eng_frame>>
wsvars == <<active_connections, subscriptions, accepted, closed, gone, bc>>
webvars == <<engvars, wsvars>>
vars == <<now, cfgvars, cbvars, rlcfgvars, rlvars, mgrvars, webvars>>

\* ---------------------------------------------------------- CircuitBreaker

\* mutant of AppendBounded: a full buffer turns the new outcome away
AppendBounded_KeepsOldest(s, x, n) ==
    IF n = 0 THEN <<>>
    ELSE IF Len(s) >= n THEN s
    ELSE Append(s, x)

\* deque(maxlen=n).append(x)
AppendBounded(s, x, n) ==
    IF n = 0 THEN <<>>
    ELSE IF Len(s) >= n THEN Append(Tail(s), x)
    ELSE Append(s, x)

\* no call() has finished yet
NoOutcome == [source |-> "none", thrown |-> NoError, error |-> NoError, admitted |-> "none"]

\* CircuitBreaker.__init__
InitBreaker(configs) ==
    /\ \E c \in configs :
         /\ name = c.name
         /\ failure_threshold = c.failure_threshold
         /\ success_threshold = c.success_threshold
         /\ timeout = c.timeout
         /\ window_size = c.window_size
    /\ state = "CLOSED"
    /\ failure_count = 0
    /\ success_count = 0
    /\ last_failure_time = NoTime
    /\ last_state_change = 0
    /\ recent_results = <<>>
    /\ total_calls = 0
    /\ total_successes = 0
    /\ total_failures = 0
    /\ total_rejections = 0
    /\ pc = [t \in Threads |-> "idle"]
    /\ admitted_in = [t \in Threads |-> "none"]
    /\ func_calls = 0
    /\ outcome = NoOutcome

\* mutants of TimeoutExpired: the cooldown ends one second early / late
TimeoutExpired_Early == now - last_failure_time >= timeout - 1

TimeoutExpired_Strict == now - last_failure_time > timeout

\* line 97: time.time() - self.last_failure_time >= self.timeout
TimeoutExpired == now - last_failure_time >= timeout

\* mutant of InvokeFunc: the operation starts only when no other is in flight
InvokeFunc_Exclusive(t) ==
    /\ \A u \in Threads : pc[u] # "running"
    /\ pc' = [pc EXCEPT ![t] = "running"]
    /\ admitted_in' = [admitted_in EXCEPT ![t] = state']
    /\ func_calls' = func_calls + 1
    /\ UNCHANGED outcome

\* line 111: func(*args, **kwargs) starts, once, outside the lock
InvokeFunc(t) ==
    /\ pc' = [pc EXCEPT ![t] = "running"]
    /\ admitted_in' = [admitted_in EXCEPT ![t] = state']
    /\ func_calls' = func_calls + 1
    /\ UNCHANGED outcome

\* lines 98-101: OPEN -> HALF_OPEN, then fall through to the invocation
AdmitTrial(t) ==
    /\ state' = "HALF_OPEN"
    /\ success_count' = 0
    /\ last_state_change' = now
    /\ InvokeFunc(t)
    /\ UNCHANGED total_rejections

\* mutant of RejectionError: a class of its own, carrying the cooldown left
RejectionError_Distinct ==
    [type |-> "CircuitOpenError", text |-> "is OPEN", breaker |-> name,
     retry_after |-> last_failure_time + timeout - now]

\* lines 104-107: Exception(f"Circuit breaker '{self.name}' is OPEN. Service
\* unavailable. Retry after {self.timeout}s.")
RejectionError ==
    [type |-> "Exception", text |-> "is OPEN. Service unavailable.",
     breaker |-> name, retry_after |-> timeout]

\* mutant of Reject: the rejection is not counted
Reject_Uncounted(t) ==
    /\ outcome' = [source |-> "breaker", thrown |-> NoError, error |-> RejectionError,
                   admitted |-> "none"]
    /\ UNCHANGED <<total_rejections, state, success_count, last_state_change, pc,
                   admitted_in, func_calls>>

\* mutant of Reject: the rejected call is taken for a probe
Reject_HalfOpens(t) ==
    /\ total_rejections' = total_rejections + 1
    /\ outcome' = [source |-> "breaker", thrown |-> NoError, error |-> RejectionError,
                   admitted |-> "none"]
    /\ state' = "HALF_OPEN"
    /\ UNCHANGED <<success_count, last_state_change, pc, admitted_in, func_calls>>

\* lines 103-107: rejection, the exception leaves call() before line 111
Reject(t) ==
    /\ total_rejections' = total_rejections + 1
    /\ outcome' = [source |-> "breaker", thrown |-> NoError, error |-> RejectionError,
                   admitted |-> "none"]
    /\ UNCHANGED <<state, success_count, last_state_change, pc, admitted_in, func_calls>>

\* the breaker's `with self.lock` (lines 91, 121, 144, 174) is entered only
\* when no other thread is inside it
BreakerLockFree == cb_lock = NoThread

\* lines 91-107: the locked prologue of call()
CallLocked(t) ==
    /\ pc[t] = "idle"
    /\ BreakerLockFree
    /\ total_calls' = total_calls + 1
    /\ IF state = "OPEN"
         THEN IF TimeoutExpired THEN AdmitTrial(t) ELSE Reject(t)
         ELSE /\ UNCHANGED <<state, success_count, last_state_change, total_rejections>>
              /\ InvokeFunc(t)
    /\ UNCHANGED <<now, cfgvars, rlcfgvars, webvars, rlvars, mgrvars, failure_count, last_failure_time, recent_results,
                   total_successes, total_failures>>

\* line 77: call(), as far as the breaker is explored
CallEnter(t) ==
    /\ total_calls < MaxCalls
    /\ CallLocked(t)

\* mutant of ReachedSuccessThreshold: one success too many is required
ReachedSuccessThreshold_Strict(count) == count > success_threshold

\* line 128: self.success_count >= self.success_threshold
ReachedSuccessThreshold(count) == count >= success_threshold

\* mutant of ForgivenFailureCount: a success takes one failure off the count
ForgivenFailureCount_Decay(count) == IF count > 0 THEN count - 1 ELSE 0

\* line 140: self.failure_count = 0, whatever it was
ForgivenFailureCount(count) == 0

\* mutant of OnSuccess: only a call admitted while HALF_OPEN counts as a trial
OnSuccess_TrialsOnly(t) ==
    /\ pc[t] = "running"
    /\ BreakerLockFree
    /\ pc' = [pc EXCEPT ![t] = "idle"]
    /\ admitted_in' = [admitted_in EXCEPT ![t] = "none"]
    /\ outcome' = [source |-> "returned", thrown |-> NoError, error |-> NoError,
                   admitted |-> admitted_in[t]]
    /\ UNCHANGED func_calls
    /\ total_successes' = total_successes + 1
    /\ recent_results' = AppendBounded(recent_results, TRUE, window_size)
    /\ IF state = "HALF_OPEN" /\ admitted_in[t] = "HALF_OPEN"
         THEN IF ReachedSuccessThreshold(success_count + 1)
                THEN /\ state' = "CLOSED"
                     /\ failure_count' = 0
                     /\ success_count' = 0
                     /\ last_state_change' = now
                ELSE /\ success_count' = success_count + 1
                     /\ UNCHANGED <<state, failure_count, last_state_change>>
         ELSE IF state = "CLOSED"
                THEN /\ failure_count' = ForgivenFailureCount(failure_count)
                     /\ UNCHANGED <<state, success_count, last_state_change>>
                ELSE UNCHANGED <<state, failure_count, success_count, last_state_change>>
    /\ UNCHANGED <<now, cfgvars, rlcfgvars, webvars, rlvars, mgrvars, last_failure_time,
                   total_calls, total_failures, total_rejections>>

\* lines 119-140: _on_success, reached when func returned (line 112)
OnSuccess(t) ==
    /\ pc[t] = "running"
    /\ BreakerLockFree
    /\ pc' = [pc EXCEPT ![t] = "idle"]
    /\ admitted_in' = [admitted_in EXCEPT ![t] = "none"]
    /\ outcome' = [source |-> "returned", thrown |-> NoError, error |-> NoError,
                   admitted |-> admitted_in[t]]                           \* line 113
    /\ UNCHANGED func_calls
    /\ total_successes' = total_successes + 1
    /\ recent_results' = AppendBounded(recent_results, TRUE, window_size)
    /\ IF state = "HALF_OPEN"
         THEN IF ReachedSuccessThreshold(success_count + 1)
                THEN /\ state' = "CLOSED"
                     /\ failure_count' = 0
                     /\ success_count' = 0
                     /\ last_state_change' = now
                ELSE /\ success_count' = success_count + 1
                     /\ UNCHANGED <<state, failure_count, last_state_change>>
         ELSE IF state = "CLOSED"
                THEN /\ failure_count' = ForgivenFailureCount(failure_count)
                     /\ UNCHANGED <<state, success_count, last_state_change>>
                ELSE UNCHANGED <<state, failure_count, success_count, last_state_change>>
    /\ UNCHANGED <<now, cfgvars, rlcfgvars, webvars, rlvars, mgrvars, last_failure_time,
                   total_calls, total_failures, total_rejections>>

\* lines 161-170: the CLOSED branch of _on_failure, evaluated after the
\* append and the increment: the threshold test is nested in the test that
\* the window is full.
TripsOpen(results, count) ==
    /\ Len(results) >= window_size
    /\ count >= failure_threshold

\* mutant of TrialFailed: a failed trial closes the breaker
TrialFailed_Closes ==
    /\ state' = "CLOSED"
    /\ success_count' = 0
    /\ last_state_change' = now

\* mutant of TrialFailed: success_count survives the failed trial
TrialFailed_KeepsCount ==
    /\ state' = "OPEN"
    /\ last_state_change' = now
    /\ UNCHANGED success_count

\* lines 150-157: the HALF_OPEN branch of _on_failure
TrialFailed ==
    /\ state' = "OPEN"
    /\ success_count' = 0
    /\ last_state_change' = now

\* mutant of FailureTime: a failure recorded while OPEN keeps the deadline
FailureTime_FrozenWhileOpen == IF state = "OPEN" THEN last_failure_time ELSE now

\* mutant of FailureTime: the time of the failure is not stored
FailureTime_Unset == last_failure_time

\* line 148: self.last_failure_time = time.time()
FailureTime == now

\* mutant of Reraise: the caller gets a new exception in place of the raised one
Reraise_Wrapped(e) ==
    [type |-> "Exception", text |-> "call failed", breaker |-> name, retry_after |-> 0]

\* line 117: a bare `raise` re-raises the exception being handled
Reraise(e) == e

\* lines 115-117 and 142-170: func raised e; _on_failure, then the re-raise
OnFailure(t, e) ==
    /\ pc[t] = "running"
    /\ BreakerLockFree
    /\ pc' = [pc EXCEPT ![t] = "idle"]
    /\ admitted_in' = [admitted_in EXCEPT ![t] = "none"]
    /\ outcome' = [source |-> "operation", thrown |-> e, error |-> Reraise(e),
                   admitted |-> admitted_in[t]]
    /\ UNCHANGED func_calls
    /\ total_failures' = total_failures + 1
    /\ recent_results' = AppendBounded(recent_results, FALSE, window_size)
    /\ failure_count' = failure_count + 1
    /\ last_failure_time' = FailureTime
    /\ IF state = "HALF_OPEN"
         THEN TrialFailed
         ELSE IF state = "CLOSED" /\ TripsOpen(recent_results', failure_count')
                THEN /\ state' = "OPEN"
                     /\ last_state_change' = now
                     /\ UNCHANGED success_count
                ELSE UNCHANGED <<state, success_count, last_state_change>>
    /\ UNCHANGED <<now, cfgvars, rlcfgvars, webvars, rlvars, mgrvars, total_calls, total_successes, total_rejections>>

\* mutant of Reset: the outcome buffer is not cleared
Reset_KeepsResults ==
    /\ BreakerLockFree
    /\ state' = "CLOSED"
    /\ failure_count' = 0
    /\ success_count' = 0
    /\ last_state_change' = now
    /\ UNCHANGED <<now, cfgvars, rlcfgvars, webvars, rlvars, mgrvars, last_failure_time, recent_results,
                   total_calls, total_successes, total_failures, total_rejections, pc,
                   admitted_in, func_calls, outcome>>

\* mutant of ResetFields: the statistics start again too
ResetFields_ClearsStatistics ==
    /\ state' = "CLOSED"
    /\ failure_count' = 0
    /\ success_count' = 0
    /\ recent_results' = <<>>
    /\ last_state_change' = now
    /\ total_calls' = 0
    /\ total_successes' = 0
    /\ total_failures' = 0
    /\ total_rejections' = 0
    /\ UNCHANGED <<last_failure_time, pc, admitted_in, func_calls, outcome>>

\* lines 175-180: the body of reset, under the breaker's lock
ResetFields ==
    /\ state' = "CLOSED"
    /\ failure_count' = 0
    /\ success_count' = 0
    /\ recent_results' = <<>>
    /\ last_state_change' = now
    /\ UNCHANGED <<last_failure_time, total_calls, total_successes, total_failures,
                   total_rejections, pc, admitted_in, func_calls, outcome>>

\* lines 172-180: reset
Reset ==
    /\ BreakerLockFree
    /\ ResetFields
    /\ UNCHANGED <<now, cfgvars, rlcfgvars, webvars, rlvars, mgrvars>>

\* --------------------------------------------------------------- RateLimiter

\* line 39: int(weight_limit * safety_margin), safety_margin in percent
EffectiveLimit(limit, margin) == (limit * margin) \div 100

NoFrame ==
    [op |-> "none", stage |-> "returned", arg |-> 0, current_time |-> 0,
     current_weight |-> 0, wait_time |-> 0, ret |-> 0,
     requests_before |-> 0, used_before |-> 0, log |-> "none",
     header |-> <<>>, raises |-> "none"]

\* RateLimiter.__init__
InitLimiter(configs) ==
    /\ \E c \in configs :
         /\ weight_limit = c.weight_limit
         /\ window_seconds = c.window_seconds
         /\ safety_margin = c.safety_margin
         /\ effective_limit = EffectiveLimit(c.weight_limit, c.safety_margin)
    /\ weight_history = <<>>
    /\ total_requests = 0
    /\ total_weight_used = 0
    /\ wait_count = 0
    /\ total_wait_time = 0
    /\ rl_lock = NoThread
    /\ frame = NoFrame

\* mutant of CleanupOldEntries: an entry stays one second beyond the window
RECURSIVE CleanupOldEntries_Late(_, _)
CleanupOldEntries_Late(history, current_time) ==
    IF history # <<>> /\ history[1][1] < current_time - window_seconds - 1
      THEN CleanupOldEntries_Late(Tail(history), current_time)
      ELSE history

\* mutant of CleanupOldEntries: an entry exactly window_seconds old is dropped
RECURSIVE CleanupOldEntries_Inclusive(_, _)
CleanupOldEntries_Inclusive(history, current_time) ==
    IF history # <<>> /\ history[1][1] <= current_time - window_seconds
      THEN CleanupOldEntries_Inclusive(Tail(history), current_time)
      ELSE history

\* lines 53-58: _cleanup_old_entries, popleft while the head is too old
RECURSIVE CleanupOldEntries(_, _)
CleanupOldEntries(history, current_time) ==
    IF history # <<>> /\ history[1][1] < current_time - window_seconds
      THEN CleanupOldEntries(Tail(history), current_time)
      ELSE history

\* line 63: sum(weight for _, weight in self.weight_history)
RECURSIVE SumWeights(_)
SumWeights(history) ==
    IF history = <<>> THEN 0 ELSE history[1][2] + SumWeights(Tail(history))

\* mutant of ExceedsLimit: a request that exactly fills the budget must wait
ExceedsLimit_Inclusive(current_weight, weight) ==
    current_weight + weight >= effective_limit

\* line 80: current_weight + weight > self.effective_limit
ExceedsLimit(current_weight, weight) ==
    current_weight + weight > effective_limit

\* mutant of WaitTime: the wait is taken from the newest entry
WaitTime_Newest(history, current_time) ==
    (history[Len(history)][1] + window_seconds) - current_time

\* lines 83-84: (oldest_time + window_seconds) - current_time
WaitTime(history, current_time) ==
    (history[1][1] + window_seconds) - current_time

\* mutant of LockFree: the mutex is given up for the length of the sleep
LockFree_DuringSleep == TRUE

\* `with self.lock` (lines 75, 122, 143, 161) is entered only when no other
\* thread is inside it; a sleeping wait_if_needed is
LockFree == rl_lock = NoThread

\* lines 75-95 and 101-106: wait_if_needed up to its first return or its sleep
WaitIfNeeded(t, weight) ==
    /\ LockFree
    /\ LET history == CleanupOldEntries(weight_history, now)
           current_weight == SumWeights(history)
           fr == [op |-> "wait_if_needed", stage |-> "returned", arg |-> weight,
                  current_time |-> now, current_weight |-> current_weight,
                  wait_time |-> 0, ret |-> 0,
                  requests_before |-> total_requests,
                  used_before |-> total_weight_used, log |-> "none",
                  header |-> <<>>, raises |-> "none"]
       IN  IF /\ ExceedsLimit(current_weight, weight)
              /\ history # <<>>
              /\ WaitTime(history, now) > 0
             THEN /\ wait_count' = wait_count + 1
                  /\ total_wait_time' = total_wait_time + WaitTime(history, now)
                  /\ weight_history' = history
                  /\ rl_lock' = t
                  /\ frame' = [fr EXCEPT !.stage = "sleeping",
                                         !.wait_time = WaitTime(history, now),
                                         !.log = "approaching"]   \* lines 90-93
                  /\ UNCHANGED <<total_requests, total_weight_used>>
             ELSE /\ Len(history) < MaxHistory
                  /\ weight_history' = Append(history, <<now, weight>>)
                  /\ total_requests' = total_requests + 1
                  /\ total_weight_used' = total_weight_used + weight
                  /\ frame' = fr
                  /\ UNCHANGED <<wait_count, total_wait_time, rl_lock>>
    /\ UNCHANGED <<now, cfgvars, cbvars, mgrvars, rlcfgvars, webvars>>

\* mutant of WakeUp: capacity is checked again after waking, and the caller
\* sleeps once more while the request still does not fit
WakeUp_Rechecks(t) ==
    /\ rl_lock = t
    /\ now >= frame.current_time + frame.wait_time
    /\ weight_history' = CleanupOldEntries(weight_history, now)
    /\ IF ExceedsLimit(SumWeights(weight_history'), frame.arg)
         THEN /\ frame' = [frame EXCEPT !.current_time = now, !.wait_time = 1]
              /\ wait_count' = wait_count + 1
              /\ total_wait_time' = total_wait_time + 1
              /\ UNCHANGED rl_lock
         ELSE /\ frame' = [frame EXCEPT !.stage = "returned", !.current_time = now,
                                        !.ret = frame.wait_time]
              /\ rl_lock' = NoThread
              /\ UNCHANGED <<wait_count, total_wait_time>>
    /\ UNCHANGED <<now, cfgvars, cbvars, mgrvars, rlcfgvars, webvars, total_requests,
                   total_weight_used>>

\* lines 95-99: time.sleep(wait_time) is over; prune again and return wait_time
WakeUp(t) ==
    /\ rl_lock = t
    /\ now >= frame.current_time + frame.wait_time
    /\ weight_history' = CleanupOldEntries(weight_history, now)
    /\ frame' = [frame EXCEPT !.stage = "returned", !.current_time = now,
                              !.ret = frame.wait_time]
    /\ rl_lock' = NoThread
    /\ UNCHANGED <<now, cfgvars, cbvars, mgrvars, rlcfgvars, webvars, total_requests,
                   total_weight_used, wait_count, total_wait_time>>

\* int(used_weight_header), line 120: an optional sign and decimal digits
\* (the header texts explored hold no blanks or underscores)
DigitChars == <<"0", "1", "2", "3", "4", "5", "6", "7", "8", "9">>

IsDigit(c) == \E i \in 1..Len(DigitChars) : DigitChars[i] = c

DigitValue(c) == (CHOOSE i \in 1..Len(DigitChars) : DigitChars[i] = c) - 1

Unsigned(text) == IF text # <<>> /\ text[1] \in {"-", "+"} THEN Tail(text) ELSE text

IsIntLiteral(text) ==
    /\ Unsigned(text) # <<>>
    /\ \A i \in 1..Len(Unsigned(text)) : IsDigit(Unsigned(text)[i])

RECURSIVE DigitsValue(_)
DigitsValue(digits) ==
    IF digits = <<>> THEN 0
    ELSE 10 * DigitsValue(SubSeq(digits, 1, Len(digits) - 1))
         + DigitValue(digits[Len(digits)])

ParseInt(text) ==
    IF text[1] = "-" THEN 0 - DigitsValue(Unsigned(text)) ELSE DigitsValue(Unsigned(text))

\* mutant of UsageWarning: the effective limit is tested first
UsageWarning_HighFirst(server_weight) ==
    IF server_weight > effective_limit THEN "high"
    ELSE IF 10 * server_weight > 9 * weight_limit THEN "critical"
    ELSE "none"

\* lines 133-136: the warning logged for a reported usage, if any (elif)
UsageWarning(server_weight) ==
    IF 10 * server_weight > 9 * weight_limit THEN "critical"
    ELSE IF server_weight > effective_limit THEN "high"
    ELSE "none"

\* mutant of Adjustment: the difference is taken the wrong way round
Adjustment_Reversed(server_weight, current_weight) == current_weight - server_weight

\* mutant of Adjustment: the reported usage itself is appended
Adjustment_Absolute(server_weight, current_weight) == server_weight

\* line 128: diff = server_weight - current_weight
Adjustment(server_weight, current_weight) == server_weight - current_weight

\* mutant of DiscardInvalid: the ValueError is not caught
DiscardInvalid_Raises(header) ==
    /\ frame' = [NoFrame EXCEPT !.op = "update_from_response",
                                !.header = header.text,
                                !.raises = "ValueError"]
    /\ UNCHANGED <<weight_history, total_requests, total_weight_used,
                   wait_count, total_wait_time, rl_lock>>

\* lines 119-120 and 138-139: int() raised ValueError before the lock was
\* taken; it is caught and a warning logged.  The locals are kept in `frame`
\* unless a sleeping wait_if_needed owns it.
DiscardInvalid(header) ==
    /\ frame' = [NoFrame EXCEPT !.op = "update_from_response",
                                !.header = header.text,
                                !.log = "invalid"]
    /\ UNCHANGED <<weight_history, total_requests, total_weight_used,
                   wait_count, total_wait_time, rl_lock>>

\* lines 108-139: update_from_response
UpdateFromResponse(header) ==
    /\ IF ~header.present \/ header.text = <<>>
         THEN UNCHANGED rlvars                           \* line 118: falsy, nothing done
         ELSE IF ~IsIntLiteral(header.text)
           THEN IF rl_lock = NoThread
                  THEN DiscardInvalid(header)
                  ELSE UNCHANGED rlvars
           ELSE /\ LockFree                              \* line 122
                /\ LET server_weight == ParseInt(header.text)
                       history == CleanupOldEntries(weight_history, now)
                       current_weight == SumWeights(history)
                   IN  /\ IF server_weight > current_weight
                            THEN /\ Len(history) < MaxHistory
                                 /\ weight_history' =
                                      Append(history,
                                             <<now, Adjustment(server_weight, current_weight)>>)
                            ELSE weight_history' = history
                       /\ frame' = [NoFrame EXCEPT !.op = "update_from_response",
                                                   !.header = header.text,
                                                   !.arg = server_weight,
                                                   !.current_time = now,
                                                   !.current_weight = current_weight,
                                                   !.requests_before = total_requests,
                                                   !.used_before = total_weight_used,
                                                   !.log = UsageWarning(server_weight)]
                /\ UNCHANGED <<total_requests, total_weight_used, wait_count,
                               total_wait_time, rl_lock>>
    /\ UNCHANGED <<now, cfgvars, cbvars, mgrvars, rlcfgvars, webvars>>

\* lines 141-157: get_statistics (the limiter's), which prunes the window
GetStatistics ==
    /\ LockFree
    /\ weight_history' = CleanupOldEntries(weight_history, now)
    /\ frame' = [NoFrame EXCEPT !.op = "get_statistics",
                                !.current_time = now,
                                !.current_weight = SumWeights(weight_history'),
                                !.requests_before = total_requests,
                                !.used_before = total_weight_used]
    /\ UNCHANGED <<now, cfgvars, cbvars, mgrvars, rlcfgvars, webvars, total_requests, total_weight_used,
                   wait_count, total_wait_time, rl_lock>>

\* mutant of ResetStatistics: the window is cleared with the counters
ResetStatistics_ClearsHistory ==
    /\ LockFree
    /\ total_requests' = 0
    /\ total_weight_used' = 0
    /\ wait_count' = 0
    /\ total_wait_time' = 0
    /\ weight_history' = <<>>
    /\ frame' = [NoFrame EXCEPT !.op = "reset_statistics",
                                !.requests_before = total_requests,
                                !.used_before = total_weight_used]
    /\ UNCHANGED <<now, cfgvars, cbvars, mgrvars, rlcfgvars, webvars, rl_lock>>

\* lines 159-165: reset_statistics
ResetStatistics ==
    /\ LockFree
    /\ total_requests' = 0
    /\ total_weight_used' = 0
    /\ wait_count' = 0
    /\ total_wait_time' = 0
    /\ frame' = [NoFrame EXCEPT !.op = "reset_statistics",
                                !.requests_before = total_requests,
                                !.used_before = total_weight_used]
    /\ UNCHANGED <<now, cfgvars, cbvars, mgrvars, rlcfgvars, webvars, weight_history, rl_lock>>

\* -------------------------------------------------------------------- clock

\* time.time() advances; a pending time.sleep() always runs out
Tick ==
    /\ \/ now < MaxTime
       \/ rl_lock # NoThread /\ now < frame.current_time + frame.wait_time
    /\ now' = now + 1
    /\ UNCHANGED <<cfgvars, cbvars, rlcfgvars, webvars, rlvars, mgrvars>>

\* ------------------------------------------------------ CircuitBreakerManager

DefaultBreaker ==
    [name |-> "api", failure_threshold |-> 5, success_threshold |-> 2, timeout |-> 60, window_size |-> 10]

DefaultLimiter ==
    [weight_limit |-> 2400, safety_margin |-> 80, window_seconds |-> 60]

\* names the callers ask for
Names == {"api", "ws"}

\* the breaker variables above hold the instance registered under this name
TrackedName == "api"

\* name not in self.breakers
NoBreaker == 0

\* failure_threshold and timeout as passed to get_breaker: the defaults of
\* lines 217-218 and a stricter pair
GetBreakerArgs ==
    { [failure_threshold |-> 5, timeout |-> 60],
      [failure_threshold |-> 2, timeout |-> 1] }

\* `names`: the breakers a bulk method has visited so far
NoMgrFrame ==
    [op |-> "none", name |-> "", failure_threshold |-> 0, timeout |-> 0,
     ret |-> NoBreaker, names |-> {}]

\* lines 210-212: CircuitBreakerManager.__init__
InitManager ==
    /\ breakers = [n \in Names |-> NoBreaker]
    /\ heap = <<>>
    /\ mgr_frame = NoMgrFrame
    /\ mgr_lock = NoThread
    /\ cb_lock = NoThread

\* mutant of Registered: the lookup never finds the name
Registered_Never(n) == FALSE

\* line 222: name in self.breakers
Registered(n) == breakers[n] # NoBreaker

\* lines 223-227: CircuitBreaker(name=name, failure_threshold=..., timeout=...),
\* success_threshold and window_size at their defaults, stored under the name
Construct(n, a) ==
    /\ heap' = Append(heap, [name |-> n, failure_threshold |-> a.failure_threshold,
                             timeout |-> a.timeout])
    /\ breakers' = [breakers EXCEPT ![n] = Len(heap) + 1]
    /\ IF n = TrackedName
       THEN /\ name' = n
            /\ failure_threshold' = a.failure_threshold
            /\ timeout' = a.timeout
            /\ success_threshold' = DefaultBreaker.success_threshold
            /\ window_size' = DefaultBreaker.window_size
            /\ state' = "CLOSED"
            /\ failure_count' = 0
            /\ success_count' = 0
            /\ last_failure_time' = NoTime
            /\ last_state_change' = now
            /\ recent_results' = <<>>
            /\ total_calls' = 0
            /\ total_successes' = 0
            /\ total_failures' = 0
            /\ total_rejections' = 0
            /\ pc' = [t \in Threads |-> "idle"]
            /\ admitted_in' = [t \in Threads |-> "none"]
            /\ func_calls' = 0
            /\ outcome' = NoOutcome
       ELSE UNCHANGED <<cfgvars, cbvars>>

\* the manager's `with self.lock` (lines 221, 232, 240) is entered only when
\* no other thread is inside it
ManagerLockFree == mgr_lock = NoThread

\* lines 214-228: get_breaker, under the manager lock
GetBreaker(n, a) ==
    /\ ManagerLockFree
    /\ Len(heap) <= Cardinality(Names)
    /\ IF ~Registered(n)
       THEN Construct(n, a)
       ELSE UNCHANGED <<breakers, heap, cfgvars, cbvars>>
    /\ mgr_frame' = [NoMgrFrame EXCEPT !.op = "get_breaker",
                                       !.name = n,
                                       !.failure_threshold = a.failure_threshold,
                                       !.timeout = a.timeout,
                                       !.ret = breakers'[n]]
    /\ UNCHANGED <<now, rlcfgvars, webvars, rlvars, mgr_lock, cb_lock>>

\* lines 230-232: get_all_statistics takes the manager lock
GetAllStatistics(t) ==
    /\ ManagerLockFree
    /\ pc[t] = "idle"
    /\ mgr_lock' = t
    /\ mgr_frame' = [NoMgrFrame EXCEPT !.op = "get_all_statistics"]
    /\ UNCHANGED <<now, cfgvars, cbvars, rlcfgvars, webvars, rlvars, breakers, heap, cb_lock>>

\* lines 238-240: reset_all takes the manager lock
ResetAll(t) ==
    /\ ManagerLockFree
    /\ pc[t] = "idle"
    /\ mgr_lock' = t
    /\ mgr_frame' = [NoMgrFrame EXCEPT !.op = "reset_all"]
    /\ UNCHANGED <<now, cfgvars, cbvars, rlcfgvars, webvars, rlvars, breakers, heap, cb_lock>>

\* the bulk method in progress has breakers left to visit; self.breakers is
\* walked in insertion order
HasNext == Cardinality(mgr_frame.names) < Len(heap)

NextName == heap[Cardinality(mgr_frame.names) + 1].name

\* mutant of VisitLock: the manager lock is given up before the breaker's is taken
VisitLock_Handoff(t) ==
    /\ mgr_lock = t
    /\ HasNext
    /\ NextName = TrackedName
    /\ BreakerLockFree
    /\ cb_lock' = t
    /\ mgr_lock' = NoThread
    /\ UNCHANGED <<now, cfgvars, cbvars, rlcfgvars, webvars, rlvars, breakers, heap, mgr_frame>>

\* lines 234 and 242: breaker.get_statistics() / breaker.reset() enter the
\* breaker's `with self.lock` (lines 189, 174) inside the manager's
VisitLock(t) ==
    /\ mgr_lock = t
    /\ HasNext
    /\ NextName = TrackedName
    /\ BreakerLockFree
    /\ cb_lock' = t
    /\ UNCHANGED <<now, cfgvars, cbvars, rlcfgvars, webvars, rlvars, breakers, heap, mgr_frame,
                   mgr_lock>>

\* mutant of VisitBreaker: reset_all puts a new instance in place of the old
VisitBreaker_Replaces(t) ==
    /\ cb_lock = t
    /\ IF mgr_frame.op = "reset_all" THEN ResetFields ELSE UNCHANGED cbvars
    /\ cb_lock' = NoThread
    /\ mgr_frame' = [mgr_frame EXCEPT !.names = @ \cup {TrackedName}]
    /\ heap' = IF mgr_frame.op = "reset_all"
               THEN Append(heap, heap[breakers[TrackedName]]) ELSE heap
    /\ breakers' = IF mgr_frame.op = "reset_all"
                   THEN [breakers EXCEPT ![TrackedName] = Len(heap) + 1] ELSE breakers
    /\ UNCHANGED <<now, cfgvars, rlcfgvars, webvars, rlvars, mgr_lock>>

\* mutant of VisitBreaker: the breaker's lock is not released
VisitBreaker_KeepsLock(t) ==
    /\ cb_lock = t
    /\ IF mgr_frame.op = "reset_all" THEN ResetFields ELSE UNCHANGED cbvars
    /\ UNCHANGED cb_lock
    /\ mgr_frame' = [mgr_frame EXCEPT !.names = @ \cup {TrackedName}]
    /\ UNCHANGED <<now, cfgvars, rlcfgvars, webvars, rlvars, breakers, heap, mgr_lock>>

\* lines 175-180 / 190-204: the body of the breaker method, then its lock is
\* released
VisitBreaker(t) ==
    /\ cb_lock = t
    /\ IF mgr_frame.op = "reset_all" THEN ResetFields ELSE UNCHANGED cbvars
    /\ cb_lock' = NoThread
    /\ mgr_frame' = [mgr_frame EXCEPT !.names = @ \cup {TrackedName}]
    /\ UNCHANGED <<now, cfgvars, rlcfgvars, webvars, rlvars, breakers, heap, mgr_lock>>

\* the same for a breaker no caller contends for
VisitOther(t) ==
    /\ mgr_lock = t
    /\ HasNext
    /\ NextName # TrackedName
    /\ mgr_frame' = [mgr_frame EXCEPT !.names = @ \cup {NextName}]
    /\ UNCHANGED <<now, cfgvars, cbvars, rlcfgvars, webvars, rlvars, breakers, heap, mgr_lock,
                   cb_lock>>

\* lines 236 / 242: the walk is over, the manager lock is released
BulkReturn(t) ==
    /\ mgr_lock = t
    /\ cb_lock # t
    /\ ~HasNext
    /\ mgr_lock' = NoThread
    /\ UNCHANGED <<now, cfgvars, cbvars, rlcfgvars, webvars, rlvars, breakers, heap, mgr_frame,
                   cb_lock>>

\* a caller uses the breaker it got from get_breaker
CallBreaker(t) ==
    /\ breakers[TrackedName] # NoBreaker
    /\ mgr_lock # t
    /\ total_calls < MaxMgrCalls
    /\ CallEnter(t)

\* lines 217-218: get_breaker called with its defaults
DefaultArgs == [failure_threshold |-> 5, timeout |-> 60]

\* the error of a dependency that is down
ServiceDown ==
    [type |-> "ConnectionError", text |-> "refused", breaker |-> "", retry_after |-> 0]

\* a caller uses the breaker it got from get_breaker, often enough for the
\* default window of 10 outcomes to fill
CallRegistered(t) ==
    /\ breakers[TrackedName] # NoBreaker
    /\ mgr_lock # t
    /\ total_calls < MaxLockCalls
    /\ CallLocked(t)

\* lines 119-140: the operation of such a call returns
ReturnRegistered(t) ==
    /\ total_successes < MaxLockSuccesses
    /\ OnSuccess(t)

\* lines 172-180: reset() called on the registered breaker by a thread that is
\* not inside a manager method
ResetRegistered(t) ==
    /\ breakers[TrackedName] # NoBreaker
    /\ mgr_lock # t
    /\ Reset

\* lines 182-204: get_state / get_statistics on the registered breaker: the
\* breaker's lock is taken, fields are read, the lock is released
ReadRegistered(t) ==
    /\ breakers[TrackedName] # NoBreaker
    /\ mgr_lock # t
    /\ BreakerLockFree
    /\ UNCHANGED vars

\* ------------------------------------------------------------ system_service

\* line 16
DEFAULT_VERSION == "3.0.0"

\* STATE_PATH does not exist, or does not hold a JSON object (lines 20-28)
NoFile == [exists |-> FALSE, running |-> FALSE, start_time |-> NoTime, version |-> ""]

\* what logs/system_state.json may hold when the service is first used
EngineFiles ==
    { NoFile,
      [exists |-> TRUE, running |-> TRUE, start_time |-> 0, version |-> "2.9.0"],
      [exists |-> TRUE, running |-> FALSE, start_time |-> NoTime, version |-> ""] }

NoEngFrame == [op |-> "none", raises |-> "none", ret |-> NoFile]

InitEngine(files) ==
    /\ engine_file \in files
    /\ eng_pc = [t \in Threads |-> "idle"]
    /\ eng_frame = NoEngFrame

\* lines 19-29 and 38-43: _ensure_engine_state(_load_state_unlocked())
EnsureEngineState(file) ==
    IF file.exists THEN file
    ELSE [exists |-> TRUE, running |-> FALSE, start_time |-> NoTime,
          version |-> DEFAULT_VERSION]

\* lines 46-51: get_engine_state, which writes the defaults back
GetEngineState(t) ==
    /\ eng_pc[t] = "idle"
    /\ engine_file' = EnsureEngineState(engine_file)
    /\ eng_frame' = [op |-> "get_engine_state", raises |-> "none",
                     ret |-> EnsureEngineState(engine_file)]
    /\ UNCHANGED <<now, cfgvars, cbvars, rlcfgvars, rlvars, mgrvars, eng_pc, wsvars>>

\* lines 71-74, 80-83: the running test under STATE_LOCK; the lock is released
\* before _set_engine_state is called
CheckRunning(t, op, expected, error, next) ==
    /\ IF EnsureEngineState(engine_file).running = expected
         THEN /\ eng_pc' = [eng_pc EXCEPT ![t] = next]
              /\ UNCHANGED eng_frame
         ELSE /\ eng_frame' = [op |-> op, raises |-> error, ret |-> NoFile]
              /\ UNCHANGED eng_pc
    /\ UNCHANGED <<now, cfgvars, cbvars, rlcfgvars, rlvars, mgrvars, engine_file, wsvars>>

\* lines 69-74: start_engine up to its call of _set_engine_state
StartEngine(t) ==
    /\ eng_pc[t] = "idle"
    /\ CheckRunning(t, "start_engine", FALSE, "ValueError", "start_set")

\* lines 78-83: stop_engine up to its call of _set_engine_state
StopEngine(t) ==
    /\ eng_pc[t] = "idle"
    /\ CheckRunning(t, "stop_engine", TRUE, "ValueError", "stop_set")

\* lines 87-89: restart_engine calls stop_engine first
RestartEngine(t) ==
    /\ eng_pc[t] = "idle"
    /\ CheckRunning(t, "restart_engine", TRUE, "ValueError", "restart_stop_set")

\* mutant of StartTime: a stop keeps the time of the start
StartTime_Kept(running, file) == IF running THEN now ELSE file.start_time

\* lines 61-64: datetime.now(timezone.utc).isoformat() if running else None
StartTime(running, file) == IF running THEN now ELSE NoTime

\* lines 54-66: _set_engine_state(running), under STATE_LOCK
SetEngineState(t) ==
    /\ eng_pc[t] # "idle"
    /\ LET running == eng_pc[t] \in {"start_set", "restart_set"}
           engine == EnsureEngineState(engine_file)
           written == [exists |-> TRUE,
                       running |-> running,
                       version |-> IF engine.version = "" THEN DEFAULT_VERSION
                                   ELSE engine.version,
                       start_time |-> StartTime(running, engine)]
       IN  /\ engine_file' = written
           /\ IF eng_pc[t] = "restart_stop_set"
                THEN /\ eng_pc' = [eng_pc EXCEPT ![t] = "restart_set"]   \* line 90
                     /\ UNCHANGED eng_frame
                ELSE /\ eng_pc' = [eng_pc EXCEPT ![t] = "idle"]
                     /\ eng_frame' =
                          [op |-> IF eng_pc[t] = "start_set" THEN "start_engine"
                                  ELSE IF eng_pc[t] = "stop_set" THEN "stop_engine"
                                  ELSE "restart_engine",
                           raises |-> "none", ret |-> written]
    /\ UNCHANGED <<now, cfgvars, cbvars, rlcfgvars, rlvars, mgrvars, wsvars>>

\* ---------------------------------------------------------- WebSocketManager

Sockets == 1..NumSockets

\* the channels of the /ws/trades and /ws/metrics endpoints
Channels == {"trades", "metrics"}

\* broadcast() walks active_connections instead of a channel's list
AllConnections == "*"

Elements(seq) == { seq[i] : i \in 1..Len(seq) }

NoBroadcast ==
    [stage |-> "idle", target |-> AllConnections, index |-> 0,
     disconnected |-> <<>>, received |-> [w \in Sockets |-> 0], steady |-> {}]

\* lines 14-18
InitSockets ==
    /\ active_connections = <<>>
    /\ subscriptions = [c \in {} |-> <<>>]
    /\ accepted = {}
    /\ closed = {}
    /\ gone = {}
    /\ bc = NoBroadcast

\* lines 20-24: connect; every socket object is accepted once
Connect(ws) ==
    /\ ws \notin accepted
    /\ accepted' = accepted \cup {ws}
    /\ active_connections' = Append(active_connections, ws)
    /\ UNCHANGED <<now, cfgvars, cbvars, rlcfgvars, rlvars, mgrvars, engvars,
                   subscriptions, closed, gone, bc>>

\* lines 28-34: list.remove for a list that holds a socket at most once
WithoutSockets(seq, S) == SelectSeq(seq, LAMBDA x : x \notin S)

\* lines 32-34: the socket leaves every channel's list
DropSubscriptions(S) ==
    [c \in DOMAIN subscriptions |-> WithoutSockets(subscriptions[c], S)]

\* lines 26-36: disconnect; the endpoint handlers call it for a socket they
\* have connected
Disconnect(ws) ==
    /\ ws \in accepted
    /\ active_connections' = WithoutSockets(active_connections, {ws})
    /\ subscriptions' = DropSubscriptions({ws})
    /\ gone' = gone \cup {ws}
    /\ bc' = IF bc.stage = "sending" THEN [bc EXCEPT !.steady = @ \ {ws}] ELSE bc
    /\ UNCHANGED <<now, cfgvars, cbvars, rlcfgvars, rlvars, mgrvars, engvars,
                   accepted, closed>>

\* line 43: websocket in self.subscriptions[channel], after lines 40-41
Subscribed(ws, c) == c \in DOMAIN subscriptions /\ ws \in Elements(subscriptions[c])

\* lines 38-45: subscribe; main.py subscribes a socket it has just connected
Subscribe(ws, c) ==
    /\ ws \in Elements(active_connections)
    /\ subscriptions' =
         [d \in DOMAIN subscriptions \cup {c} |->
            LET list == IF d \in DOMAIN subscriptions THEN subscriptions[d] ELSE <<>>
            IN  IF d = c /\ ~Subscribed(ws, c) THEN Append(list, ws) ELSE list]
    /\ UNCHANGED <<now, cfgvars, cbvars, rlcfgvars, rlvars, mgrvars, engvars,
                   active_connections, accepted, closed, gone, bc>>

\* lines 47-51: unsubscribe
Unsubscribe(ws, c) ==
    /\ Subscribed(ws, c)
    /\ subscriptions' = [subscriptions EXCEPT ![c] = WithoutSockets(@, {ws})]
    /\ bc' = IF bc.stage = "sending" /\ bc.target = c
             THEN [bc EXCEPT !.steady = @ \ {ws}] ELSE bc
    /\ UNCHANGED <<now, cfgvars, cbvars, rlcfgvars, rlvars, mgrvars, engvars,
                   active_connections, accepted, closed, gone>>

\* the peer of a connected socket goes away: send_json raises from now on
Close(ws) ==
    /\ ws \in accepted
    /\ ws \notin closed
    /\ closed' = closed \cup {ws}
    /\ UNCHANGED <<now, cfgvars, cbvars, rlcfgvars, rlvars, mgrvars, engvars,
                   active_connections, subscriptions, accepted, gone, bc>>

\* the list a broadcast iterates: lines 64 and 81
Target ==
    IF bc.target = AllConnections THEN active_connections
    ELSE subscriptions[bc.target]

\* lines 61-64: broadcast up to its first send
Broadcast ==
    /\ bc.stage # "sending"
    /\ bc' = [NoBroadcast EXCEPT !.stage = "sending",
                                 !.steady = Elements(active_connections)]
    /\ UNCHANGED <<now, cfgvars, cbvars, rlcfgvars, rlvars, mgrvars, engvars,
                   active_connections, subscriptions, accepted, closed, gone>>

\* lines 75-81: broadcast_to_channel up to its first send
BroadcastToChannel(c) ==
    /\ bc.stage # "sending"
    /\ bc' = IF c \notin DOMAIN subscriptions
             THEN [NoBroadcast EXCEPT !.stage = "done", !.target = c]
             ELSE [NoBroadcast EXCEPT !.stage = "sending", !.target = c,
                                      !.steady = Elements(subscriptions[c])]
    /\ UNCHANGED <<now, cfgvars, cbvars, rlcfgvars, rlvars, mgrvars, engvars,
                   active_connections, subscriptions, accepted, closed, gone>>

\* lines 64-69, 81-86: the list iterator yields the element at its index, if
\* the list is that long now, and the coroutine awaits send_json on it
BroadcastSend ==
    /\ bc.stage = "sending"
    /\ bc.index < Len(Target)
    /\ LET connection == Target[bc.index + 1]
       IN  bc' = IF connection \in closed
                 THEN [bc EXCEPT !.index = @ + 1,
                                 !.disconnected = Append(@, connection)]
                 ELSE [bc EXCEPT !.index = @ + 1,
                                 !.received[connection] = @ + 1]
    /\ UNCHANGED <<now, cfgvars, cbvars, rlcfgvars, rlvars, mgrvars, engvars,
                   active_connections, subscriptions, accepted, closed, gone>>

\* lines 72-73, 89-90: the iterator is exhausted; the sockets whose send raised
\* are disconnected
BroadcastFinish ==
    /\ bc.stage = "sending"
    /\ bc.index >= Len(Target)
    /\ active_connections' = WithoutSockets(active_connections, Elements(bc.disconnected))
    /\ subscriptions' = DropSubscriptions(Elements(bc.disconnected))
    /\ gone' = gone \cup Elements(bc.disconnected)
    /\ bc' = [NoBroadcast EXCEPT !.stage = "done", !.target = bc.target]
    /\ UNCHANGED <<now, cfgvars, cbvars, rlcfgvars, rlvars, mgrvars, engvars,
                   accepted, closed>>

\* lines 92-94: get_connection_count reads the list and changes nothing
GetConnectionCount == Len(active_connections)

\* ----------------------------------------------------------- specifications

\* one circuit breaker under concurrent callers
InitCB ==
    /\ now = 0
    /\ InitBreaker(BreakerConfigs)
    /\ InitLimiter({DefaultLimiter})
    /\ InitManager
    /\ InitEngine({NoFile})
    /\ InitSockets

NextCB ==
    \/ \E t \in Threads : CallEnter(t)
    \/ \E t \in Threads : OnSuccess(t)
    \/ \E t \in Threads, e \in OpErrors : OnFailure(t, e)
    \/ Reset
    \/ Tick

SpecCB == InitCB /\ [][NextCB]_vars

\* one rate limiter under concurrent callers
InitRL ==
    /\ now = 0
    /\ InitBreaker({DefaultBreaker})
    /\ InitLimiter(LimiterConfigs)
    /\ InitManager
    /\ InitEngine({NoFile})
    /\ InitSockets

NextRL ==
    \/ \E t \in Threads, w \in Weights : WaitIfNeeded(t, w)
    \/ \E t \in Threads : WakeUp(t)
    \/ \E h \in HeaderValues : UpdateFromResponse(h)
    \/ GetStatistics
    \/ ResetStatistics
    \/ Tick

SpecRL == InitRL /\ [][NextRL]_vars

\* the configurations under which no request is larger than effective_limit
FittingConfigs ==
    { c \in LimiterConfigs :
        \A w \in Weights : w <= EffectiveLimit(c.weight_limit, c.safety_margin) }

\* one rate limiter whose callers never report the server's usage
InitAdmit ==
    /\ now = 0
    /\ InitBreaker({DefaultBreaker})
    /\ InitLimiter(FittingConfigs)
    /\ InitManager
    /\ InitEngine({NoFile})
    /\ InitSockets

NextAdmit ==
    \/ \E t \in Threads, w \in Weights : WaitIfNeeded(t, w)
    \/ \E t \in Threads : WakeUp(t)
    \/ GetStatistics
    \/ ResetStatistics
    \/ Tick

SpecAdmit == InitAdmit /\ [][NextAdmit]_vars

\* one manager handing out breakers to concurrent callers
InitMgr ==
    /\ now = 0
    /\ InitBreaker({DefaultBreaker})
    /\ InitLimiter({DefaultLimiter})
    /\ InitManager
    /\ InitEngine({NoFile})
    /\ InitSockets

NextMgr ==
    \/ \E n \in Names, a \in GetBreakerArgs : GetBreaker(n, a)
    \/ \E t \in Threads : GetAllStatistics(t)
    \/ \E t \in Threads : ResetAll(t)
    \/ \E t \in Threads : VisitLock(t)
    \/ \E t \in Threads : VisitBreaker(t)
    \/ \E t \in Threads : VisitOther(t)
    \/ \E t \in Threads : BulkReturn(t)
    \/ \E t \in Threads : CallBreaker(t)
    \/ \E t \in Threads : OnSuccess(t)
    \/ \E t \in Threads, e \in OpErrors : OnFailure(t, e)
    \/ Tick

SpecMgr == InitMgr /\ [][NextMgr]_vars

\* the manager's lock and a breaker's lock under concurrent callers of a
\* dependency that is down, which is what fills the window and trips the
\* breaker; the clock stands still
InitLocks == InitMgr

NextLocks ==
    \/ \E n \in Names : GetBreaker(n, DefaultArgs)
    \/ \E t \in Threads : GetAllStatistics(t)
    \/ \E t \in Threads : ResetAll(t)
    \/ \E t \in Threads : VisitLock(t)
    \/ \E t \in Threads : VisitBreaker(t)
    \/ \E t \in Threads : VisitOther(t)
    \/ \E t \in Threads : BulkReturn(t)
    \/ \E t \in Threads : CallRegistered(t)
    \/ \E t \in Threads : OnFailure(t, ServiceDown)
    \/ \E t \in Threads : ResetRegistered(t)
    \/ \E t \in Threads : ReadRegistered(t)

\* a thread inside a manager method keeps running; an operation in flight
\* ends, and its caller gets the breaker's lock when it is free again and again
FairLocks ==
    \A t \in Threads :
        /\ WF_vars(VisitLock(t) \/ VisitBreaker(t) \/ VisitOther(t) \/ BulkReturn(t))
        /\ SF_vars(OnFailure(t, ServiceDown))

SpecLocks == InitLocks /\ [][NextLocks]_vars /\ FairLocks

\* the manager and its breakers under callers whose operations mostly fail,
\* with reset() and reset_all() in between; the clock stands still
InitReset == InitMgr

NextReset ==
    \/ \E n \in Names : GetBreaker(n, DefaultArgs)
    \/ \E t \in Threads : ResetAll(t)
    \/ \E t \in Threads : VisitLock(t)
    \/ \E t \in Threads : VisitBreaker(t)
    \/ \E t \in Threads : VisitOther(t)
    \/ \E t \in Threads : BulkReturn(t)
    \/ \E t \in Threads : CallRegistered(t)
    \/ \E t \in Threads : ReturnRegistered(t)
    \/ \E t \in Threads : OnFailure(t, ServiceDown)
    \/ \E t \in Threads : ResetRegistered(t)

SpecReset == InitReset /\ [][NextReset]_vars

\* the engine state file under concurrent API requests
InitEng ==
    /\ now = 0
    /\ InitBreaker({DefaultBreaker})
    /\ InitLimiter({DefaultLimiter})
    /\ InitManager
    /\ InitEngine(EngineFiles)
    /\ InitSockets

NextEng ==
    \/ \E t \in Threads : GetEngineState(t)
    \/ \E t \in Threads : StartEngine(t)
    \/ \E t \in Threads : StopEngine(t)
    \/ \E t \in Threads : RestartEngine(t)
    \/ \E t \in Threads : SetEngineState(t)
    \/ Tick

SpecEng == InitEng /\ [][NextEng]_vars

\* one WebSocketManager, the endpoint handlers and one broadcast at a time
InitWS ==
    /\ now = 0
    /\ InitBreaker({DefaultBreaker})
    /\ InitLimiter({DefaultLimiter})
    /\ InitManager
    /\ InitEngine({NoFile})
    /\ InitSockets

NextWS ==
    \/ \E ws \in Sockets : Connect(ws)
    \/ \E ws \in Sockets : Disconnect(ws)
    \/ \E ws \in Sockets, c \in Channels : Subscribe(ws, c)
    \/ \E ws \in Sockets, c \in Channels : Unsubscribe(ws, c)
    \/ \E ws \in Sockets : Close(ws)
    \/ Broadcast
    \/ \E c \in Channels : BroadcastToChannel(c)
    \/ BroadcastSend
    \/ BroadcastFinish

SpecWS == InitWS /\ [][NextWS]_vars

\* ------------------------------------------------------ CircuitBreaker claims

\* the calls admitted (line 92 done) whose outcome is not recorded yet
InFlight == {t \in Threads : pc[t] = "running"}

\* C1: a CLOSED breaker whose failure_count has reached failure_threshold
\* (that many consecutive failed calls since failure_count was 0) is OPEN:
\* no state is CLOSED with failure_count >= failure_threshold.
C1_TripsAtThreshold ==
    state = "CLOSED" => failure_count < failure_threshold

\* C2: while OPEN and before the timeout has elapsed since last_failure_time,
\* every call() is rejected: total_rejections grows by one, the state stays
\* OPEN and no thread starts running the operation.
C2_RejectedWhileOpen ==
    [][ ( /\ state = "OPEN"
          /\ now - last_failure_time < timeout
          /\ total_calls' # total_calls )
        => ( /\ total_rejections' = total_rejections + 1
             /\ state' = "OPEN"
             /\ pc' = pc ) ]_vars

C2_Witness ==
    /\ state = "OPEN"
    /\ now - last_failure_time < timeout
    /\ total_rejections >= 1
    /\ InFlight = {}

\* C3: a call() made while OPEN once the timeout has elapsed moves the breaker
\* to HALF_OPEN with success_count = 0 and runs the operation without counting
\* a rejection; and OPEN -> HALF_OPEN happens in no step other than a call()
\* (in particular not when the clock advances).
C3_TrialAfterTimeout ==
    [][ /\ ( /\ state = "OPEN"
             /\ now - last_failure_time >= timeout
             /\ total_calls' # total_calls )
           => ( /\ state' = "HALF_OPEN"
                /\ success_count' = 0
                /\ total_rejections' = total_rejections
                /\ \E t \in Threads : pc[t] = "idle" /\ pc'[t] = "running" )
        /\ (state = "OPEN" /\ state' = "HALF_OPEN")
           => (total_calls' = total_calls + 1 /\ now' = now) ]_vars

C3_Witness ==
    /\ state = "HALF_OPEN"
    /\ success_count = 0
    /\ InFlight # {}
    /\ last_state_change >= last_failure_time + timeout

\* C4: a success recorded while HALF_OPEN adds one to success_count; below
\* success_threshold the breaker stays HALF_OPEN, on reaching it the breaker
\* is CLOSED with failure_count = 0 and success_count = 0.
C4_HalfOpenSuccess ==
    [][ (state = "HALF_OPEN" /\ total_successes' = total_successes + 1)
        => /\ (success_count + 1 < success_threshold)
                => (state' = "HALF_OPEN" /\ success_count' = success_count + 1)
           /\ (success_count + 1 = success_threshold)
                => (state' = "CLOSED" /\ failure_count' = 0 /\ success_count' = 0) ]_vars

\* scenario 2: success_threshold = 2, the first trial succeeded
C4_Witness ==
    /\ success_threshold = 2
    /\ state = "HALF_OPEN"
    /\ success_count = 1
    /\ total_successes >= 1

\* C5: a failure recorded while HALF_OPEN moves the breaker to OPEN and zeroes
\* success_count, whatever success_count, recent_results and failure_threshold.
C5_HalfOpenFailure ==
    [][ (state = "HALF_OPEN" /\ total_failures' = total_failures + 1)
        => (state' = "OPEN" /\ success_count' = 0) ]_vars

\* a trial succeeded, the next one failed: OPEN again at the failure's time
C5_Witness ==
    /\ state = "OPEN"
    /\ success_count = 0
    /\ last_state_change = last_failure_time
    /\ success_threshold = 2
    /\ total_successes >= 1
    /\ total_failures >= 2
    /\ Len(recent_results) >= 1
    /\ recent_results[Len(recent_results)] = FALSE

\* C6 (as stated): the four counters balance in every state.
C6_CountersBalance ==
    total_calls = total_successes + total_failures + total_rejections

\* C6 (amended): total_calls counts the calls in flight as well; the counters
\* balance when no call is between admission and the recording of its outcome.
C6_CountersBalanceInFlight ==
    total_calls = total_successes + total_failures + total_rejections
                  + Cardinality(InFlight)

C6_Witness ==
    /\ InFlight # {}
    /\ total_rejections >= 1
    /\ total_successes >= 1
    /\ total_failures >= 1

\* a step of reset(): the breaker changes while no call enters, no outcome is
\* recorded and the clock stands
ResetStep ==
    UNCHANGED <<now, total_calls, total_successes, total_failures, total_rejections>>

\* C12: reset(), from any state and also with calls in flight, leaves the
\* breaker CLOSED with failure_count = 0, success_count = 0 and an empty
\* recent_results.
C12_ResetYieldsClosed ==
    [][ ResetStep
        => ( /\ state' = "CLOSED"
             /\ failure_count' = 0
             /\ success_count' = 0
             /\ recent_results' = <<>> ) ]_vars

\* outcomes were recorded, a call is in flight, and the buffer is empty: only
\* reset() empties it
C12_Witness ==
    /\ state = "CLOSED"
    /\ failure_count = 0
    /\ success_count = 0
    /\ recent_results = <<>>
    /\ total_failures >= 1
    /\ InFlight # {}

\* C17: a success recorded while CLOSED sets failure_count to 0 whatever it
\* was and leaves the breaker CLOSED.
C17_SuccessForgives ==
    [][ (state = "CLOSED" /\ total_successes' = total_successes + 1)
        => (failure_count' = 0 /\ state' = "CLOSED") ]_vars

\* scenario 5: failure_threshold = 2, one failure then one success
C17_Witness ==
    /\ failure_threshold = 2
    /\ state = "CLOSED"
    /\ failure_count = 0
    /\ total_failures = 1
    /\ total_successes = 1
    /\ recent_results = <<FALSE, TRUE>>

\* C18: whenever the breaker is OPEN, last_failure_time is set.
C18_OpenHasFailureTime ==
    state = "OPEN" => last_failure_time # NoTime

C18_Witness ==
    /\ state = "OPEN"
    /\ last_failure_time >= 0
    /\ now - last_failure_time >= timeout

\* C19: success_count is 0 whenever the breaker is not HALF_OPEN, it never
\* exceeds success_threshold, and every step into or out of HALF_OPEN leaves
\* it 0.
C19_SuccessCountOnlyHalfOpen ==
    /\ [](state # "HALF_OPEN" => success_count = 0)
    /\ [](success_count <= success_threshold)
    /\ [][ (state' # state /\ (state = "HALF_OPEN" \/ state' = "HALF_OPEN"))
           => success_count' = 0 ]_vars

\* CLOSED again after a trial: the failure is still in the buffer (no reset
\* since) and the state changed after it
C19_Witness ==
    /\ state = "CLOSED"
    /\ success_count = 0
    /\ last_failure_time # NoTime
    /\ last_state_change > last_failure_time
    /\ \E i \in 1..Len(recent_results) : recent_results[i] = FALSE

\* --------------------------------------------------------- RateLimiter claims

\* the step in which a thread enters wait_if_needed and takes the lock
EntersWait ==
    /\ rl_lock = NoThread
    /\ frame' # frame
    /\ frame'.op = "wait_if_needed"

\* C7: once a wait_if_needed(weight) invocation has returned, immediately or
\* after blocking, it has appended the entry (time, weight) and has added 1 to
\* total_requests and weight to total_weight_used.
C7_EveryCallRecorded ==
    (frame.op = "wait_if_needed" /\ frame.stage = "returned")
    => /\ total_requests = frame.requests_before + 1
       /\ total_weight_used = frame.used_before + frame.arg
       /\ weight_history # <<>>
       /\ weight_history[Len(weight_history)] = <<frame.current_time, frame.arg>>

\* C8: when current_weight + weight > effective_limit and the oldest entry of
\* the window expires strictly later than now, wait_if_needed adds 1 to
\* wait_count and wait_time = oldest + window_seconds - now to total_wait_time
\* and sleeps for wait_time holding the lock; it does not return before
\* wait_time has passed, and it returns wait_time.
C8_WaitsForOldest ==
    [][ LET history == CleanupOldEntries(weight_history, now)
            weight == frame'.arg
        IN  /\ ( /\ EntersWait
                 /\ SumWeights(history) + weight > effective_limit
                 /\ history # <<>>
                 /\ history[1][1] + window_seconds > now )
               => ( /\ wait_count' = wait_count + 1
                    /\ total_wait_time' =
                         total_wait_time + (history[1][1] + window_seconds - now)
                    /\ frame'.stage = "sleeping"
                    /\ frame'.wait_time = history[1][1] + window_seconds - now
                    /\ rl_lock' \in Threads )
            /\ (frame.stage = "sleeping" /\ frame'.stage = "returned")
               => ( /\ frame'.ret = frame.wait_time
                    /\ now >= frame.current_time + frame.wait_time
                    /\ wait_count' = wait_count
                    /\ total_wait_time' = total_wait_time )
            /\ (frame.stage = "sleeping" /\ frame'.stage = "sleeping")
               => (frame' = frame /\ rl_lock' = rl_lock) ]_vars

\* scenario 3: effective_limit = 50, two entries of weight 20, a third request
\* of weight 20 has waited and returned its wait
C8_Witness ==
    /\ effective_limit = 50
    /\ frame.op = "wait_if_needed"
    /\ frame.stage = "returned"
    /\ frame.arg = 20
    /\ frame.current_weight = 40
    /\ frame.ret > 0
    /\ frame.ret = frame.wait_time
    /\ wait_count >= 1
    /\ total_wait_time >= frame.wait_time

\* C9: when current_weight + weight <= effective_limit, wait_if_needed returns
\* 0 in the same step without sleeping, leaves wait_count and total_wait_time
\* unchanged, and records the entry (time, weight) and the two counters.
C9_AdmitsWithinLimit ==
    [][ LET history == CleanupOldEntries(weight_history, now)
            weight == frame'.arg
        IN  ( /\ EntersWait
              /\ SumWeights(history) + weight <= effective_limit )
            => ( /\ frame'.stage = "returned"
                 /\ frame'.ret = 0
                 /\ rl_lock' = NoThread
                 /\ wait_count' = wait_count
                 /\ total_wait_time' = total_wait_time
                 /\ weight_history' = Append(history, <<now, weight>>)
                 /\ total_requests' = total_requests + 1
                 /\ total_weight_used' = total_weight_used + weight ) ]_vars

\* scenario 3: weight_limit = 100, safety_margin = 0.5, the second request of
\* weight 20 has been admitted at once
C9_Witness ==
    /\ weight_limit = 100
    /\ safety_margin = 50
    /\ frame.op = "wait_if_needed"
    /\ frame.stage = "returned"
    /\ frame.ret = 0
    /\ frame.arg = 20
    /\ frame.current_weight = 20
    /\ Len(weight_history) = 2
    /\ weight_history[2] = <<frame.current_time, 20>>
    /\ wait_count = 0

\* C10: when update_from_response reports a usage U above the current weight W
\* of the window, exactly one entry (now, U - W) is appended to the pruned
\* history, and the current weight computed right after it is U.
C10_ReconcilesUp ==
    [][ LET history == CleanupOldEntries(weight_history, now)
            usage == frame'.arg
        IN  ( /\ frame' # frame
              /\ frame'.op = "update_from_response"
              /\ usage > SumWeights(history) )
            => ( /\ weight_history' =
                      Append(history, <<now, usage - SumWeights(history)>>)
                 /\ SumWeights(CleanupOldEntries(weight_history', now)) = usage ) ]_vars

\* scenario 4: W = 50, U = 80, a +30 entry, the window now weighs 80
C10_Witness ==
    /\ frame.op = "update_from_response"
    /\ frame.arg = 80
    /\ frame.current_weight = 50
    /\ weight_history # <<>>
    /\ weight_history[Len(weight_history)] = <<frame.current_time, 30>>
    /\ SumWeights(CleanupOldEntries(weight_history, frame.current_time)) = 80

\* the step in which update_from_response runs under the lock
UpdateStep ==
    /\ frame' # frame
    /\ frame'.op = "update_from_response"

\* a header text that is no integer: some character is no digit (a sign may
\* come first)
Malformed(text) ==
    \E i \in 1..Len(text) :
        text[i] \notin {"0", "1", "2", "3", "4", "5", "6", "7", "8", "9"} \cup
                        (IF i = 1 /\ Len(text) > 1 THEN {"-", "+"} ELSE {})

\* C11: update_from_response never lowers the weight of the window; with a
\* usage <= current_weight it only prunes; an entry it appends has weight > 0.
C11_NeverDecreases ==
    [][ LET history == CleanupOldEntries(weight_history, now)
        IN  (UpdateStep /\ ~Malformed(frame'.header))
            => ( /\ SumWeights(CleanupOldEntries(weight_history', now)) >= SumWeights(history)
                 /\ (frame'.arg <= SumWeights(history)) => weight_history' = history
                 /\ (weight_history' # history)
                      => ( /\ Len(weight_history') = Len(history) + 1
                           /\ SubSeq(weight_history', 1, Len(history)) = history
                           /\ weight_history'[Len(weight_history')][2] > 0 ) ) ]_vars

\* the window weighs 50 and a usage of 50 was reported: nothing was added
C11_Witness ==
    /\ frame.op = "update_from_response"
    /\ frame.arg = 50
    /\ frame.current_weight = 50
    /\ Len(weight_history) = 2
    /\ SumWeights(weight_history) = 50

\* C20 (as stated): no step lowers total_requests or shortens weight_history.
C20_Monotone ==
    [][ /\ total_requests' >= total_requests
        /\ Len(weight_history') >= Len(weight_history) ]_vars

\* C20 (amended): total_requests is lowered only by reset_statistics, to 0;
\* weight_history loses only entries at its head that are older than
\* window_seconds, and gains at most one entry, at its tail, per step.
C20_MonotoneButResetAndPruning ==
    [][ /\ \/ total_requests' >= total_requests
           \/ frame'.op = "reset_statistics" /\ total_requests' = 0
        /\ \E k \in 0..Len(weight_history) :
             /\ \A i \in 1..k : weight_history[i][1] < now - window_seconds
             /\ LET kept == SubSeq(weight_history, k + 1, Len(weight_history))
                IN  \/ weight_history' = kept
                    \/ /\ Len(weight_history') = Len(kept) + 1
                       /\ SubSeq(weight_history', 1, Len(kept)) = kept ]_vars

\* requests were counted and recorded, the entries aged out and were pruned,
\* and reset_statistics zeroed the count
C20_Witness ==
    /\ frame.op = "reset_statistics"
    /\ frame.requests_before >= 2
    /\ total_requests = 0
    /\ weight_history = <<>>

\* C16: a usage header that is no integer is discarded by update_from_response:
\* nothing is raised to the caller, and weight_history and the four counters
\* are exactly what they were.
C16_MalformedDiscarded ==
    [][ (UpdateStep /\ Malformed(frame'.header))
        => ( /\ frame'.raises = "none"
             /\ UNCHANGED <<weight_history, total_requests, total_weight_used,
                            wait_count, total_wait_time, rl_lock>> ) ]_vars

\* the header "8x" was handled while the window held entries older than
\* window_seconds: they are still there
C16_Witness ==
    /\ frame.op = "update_from_response"
    /\ frame.header = <<"8", "x">>
    /\ frame.raises = "none"
    /\ frame.log = "invalid"
    /\ weight_history # <<>>
    /\ weight_history[1][1] < now - window_seconds
    /\ total_requests >= 1

\* a step in which the operation of an admitted call raised
OperationFailed ==
    \E t \in Threads :
        /\ pc[t] = "running"
        /\ pc'[t] = "idle"
        /\ outcome'.thrown # NoError

\* C14: when the operation of an admitted call fails, exactly one failure is
\* recorded (total_failures and failure_count go up by one, FALSE is appended
\* to recent_results, last_failure_time is set to the current time) and the
\* caller gets the very error the operation raised; the operation is never
\* invoked more often than calls were admitted.
C14_FailureRecordedAndReraised ==
    /\ [][ OperationFailed
           => ( /\ total_failures' = total_failures + 1
                /\ failure_count' = failure_count + 1
                /\ last_failure_time' = now
                /\ recent_results' # <<>>
                /\ recent_results'[Len(recent_results')] = FALSE
                /\ Len(recent_results') =
                     (IF Len(recent_results) < window_size
                      THEN Len(recent_results) + 1 ELSE window_size)
                /\ outcome'.source = "operation"
                /\ outcome'.thrown \in OpErrors
                /\ outcome'.error = outcome'.thrown
                /\ func_calls' = func_calls
                /\ UNCHANGED <<total_calls, total_successes, total_rejections>> ) ]_vars
    /\ [](func_calls = total_calls - total_rejections)

\* a ConnectionError of the operation reached the caller as it was raised,
\* after one invocation, and is the one recorded failure
C14_Witness ==
    /\ outcome.source = "operation"
    /\ outcome.thrown.type = "ConnectionError"
    /\ outcome.error = outcome.thrown
    /\ total_calls = 1
    /\ func_calls = 1
    /\ total_failures = 1
    /\ failure_count = 1
    /\ recent_results = <<FALSE>>
    /\ last_failure_time = now

\* a step in which call() turned a caller away at the OPEN test
RejectedStep == total_rejections' = total_rejections + 1

GetRegisteredStep ==
    /\ mgr_frame' # mgr_frame
    /\ mgr_frame'.op = "get_breaker"
    /\ breakers[mgr_frame'.name] # NoBreaker

\* C13: get_breaker on a name that is already registered returns the instance
\* registered under it, whatever failure_threshold and timeout are passed,
\* constructs nothing, and leaves that instance's configuration and all its
\* mutable state as they were.
C13_FirstWriterWins ==
    [][ GetRegisteredStep
        => ( /\ mgr_frame'.ret = breakers[mgr_frame'.name]
             /\ breakers' = breakers
             /\ heap' = heap
             /\ heap[mgr_frame'.ret].name = mgr_frame'.name
             /\ UNCHANGED <<cfgvars, cbvars>> ) ]_vars

\* get_breaker("api", 2, 1) returned the instance created with the defaults
\* 5 and 60, which has recorded a failure and still has its own thresholds
C13_Witness ==
    /\ mgr_frame.op = "get_breaker"
    /\ mgr_frame.name = TrackedName
    /\ mgr_frame.ret = breakers[TrackedName]
    /\ mgr_frame.failure_threshold # failure_threshold
    /\ mgr_frame.timeout # timeout
    /\ heap[mgr_frame.ret].failure_threshold = failure_threshold
    /\ heap[mgr_frame.ret].timeout = timeout
    /\ Len(heap) = Cardinality(Names)
    /\ total_failures >= 1
    /\ failure_count >= 1

\* the step in which reset_statistics runs
ResetStatisticsStep ==
    /\ frame' # frame
    /\ frame'.op = "reset_statistics"

\* C23: reset_statistics sets total_requests, total_weight_used, wait_count and
\* total_wait_time to 0 and leaves weight_history, and with it the weight of
\* the window, as it was.
C23_ResetZeroesCountersOnly ==
    [][ ResetStatisticsStep
        => ( /\ total_requests' = 0
             /\ total_weight_used' = 0
             /\ wait_count' = 0
             /\ total_wait_time' = 0
             /\ weight_history' = weight_history
             /\ SumWeights(CleanupOldEntries(weight_history', now))
                  = SumWeights(CleanupOldEntries(weight_history, now)) ) ]_vars

\* two requests were recorded and the counters zeroed; both entries are
\* still in the window
C23_Witness ==
    /\ frame.op = "reset_statistics"
    /\ frame.requests_before = 2
    /\ frame.used_before > 0
    /\ total_requests = 0
    /\ total_weight_used = 0
    /\ wait_count = 0
    /\ total_wait_time = 0
    /\ Len(weight_history) = 2
    /\ SumWeights(weight_history) = frame.used_before

\* a call() entered and no operation was started: the call was turned away
TurnedAway ==
    /\ total_calls' # total_calls
    /\ pc' = pc

\* C27: total_calls counts every call() invocation, admitted or not; a
\* rejected call adds exactly one to total_calls and to total_rejections and
\* leaves state, failure_count, success_count, total_successes,
\* total_failures, last_failure_time and recent_results as they were.
C27_RejectionIsNoFailure ==
    [][ /\ TurnedAway
           => ( /\ total_calls' = total_calls + 1
                /\ total_rejections' = total_rejections + 1
                /\ UNCHANGED <<state, failure_count, success_count, total_successes,
                               total_failures, last_failure_time, recent_results>> )
        /\ (\E t \in Threads : pc[t] = "idle" /\ pc'[t] = "running")
           => ( /\ total_calls' = total_calls + 1
                /\ total_rejections' = total_rejections ) ]_vars

\* one failure opened the breaker and two calls were rejected since: three
\* calls counted, still one failure
C27_Witness ==
    /\ state = "OPEN"
    /\ total_calls = 3
    /\ total_rejections = 2
    /\ total_failures = 1
    /\ failure_count = 1
    /\ total_successes = 0
    /\ recent_results = <<FALSE>>
    /\ outcome.source = "breaker"

\* C28: trial admission is not exclusive.  While the breaker is HALF_OPEN any
\* idle caller that enters call() is admitted and its operation started,
\* however many trials are in flight already; so two calls can be in flight at
\* the same time during one HALF_OPEN period (C28_Witness).
C28_TrialNotExclusive ==
    \A t \in Threads :
        (state = "HALF_OPEN" /\ pc[t] = "idle" /\ total_calls < MaxCalls)
        => ENABLED ( /\ CallEnter(t)
                     /\ pc'[t] = "running"
                     /\ state' = "HALF_OPEN"
                     /\ total_rejections' = total_rejections )

\* the cooldown has elapsed, the breaker is HALF_OPEN and two operations
\* admitted since it became HALF_OPEN are in flight
C28_Witness ==
    /\ state = "HALF_OPEN"
    /\ Cardinality({t \in Threads : pc[t] = "running"
                                     /\ admitted_in[t] = "HALF_OPEN"}) >= 2
    /\ last_failure_time # NoTime
    /\ last_state_change >= last_failure_time + timeout

\* C29: wait_if_needed sleeps at most once per invocation and does not check
\* capacity again after waking.  A sleeping invocation does nothing but return
\* (one step, whatever the window then weighs, also when the request is larger
\* than effective_limit or still does not fit), without counting a second
\* wait; and its return is possible as soon as wait_time has passed.
C29_SleepsAtMostOnce ==
    /\ [][ (frame.stage = "sleeping")
           => \/ frame' = frame
              \/ /\ frame'.op = "wait_if_needed"
                 /\ frame'.stage = "returned"
                 /\ frame'.arg = frame.arg
                 /\ frame'.wait_time = frame.wait_time
                 /\ frame'.ret = frame.wait_time
                 /\ rl_lock' = NoThread
                 /\ wait_count' = wait_count
                 /\ total_wait_time' = total_wait_time ]_vars
    /\ [][ (frame'.stage = "sleeping" /\ frame' # frame)
           => (frame.stage = "returned" /\ wait_count' = wait_count + 1) ]_vars
    /\ []( (frame.stage = "sleeping" /\ now >= frame.current_time + frame.wait_time)
           => ENABLED (WakeUp(rl_lock) /\ frame'.stage = "returned") )

\* a request of weight 30, larger than effective_limit = 24, slept once and
\* returned although the window still holds 20 and the request does not fit
C29_Witness ==
    /\ effective_limit < 30
    /\ frame.op = "wait_if_needed"
    /\ frame.stage = "returned"
    /\ frame.arg = 30
    /\ frame.ret > 0
    /\ wait_count = 1
    /\ weight_history # <<>>
    /\ SumWeights(CleanupOldEntries(weight_history, now)) + frame.arg > effective_limit

\* a step of an operation that computes the window: wait_if_needed (on entry
\* and on waking), update_from_response with an integer header, get_statistics
WindowStep ==
    /\ frame' # frame
    /\ \/ frame'.op \in {"wait_if_needed", "get_statistics"}
       \/ frame'.op = "update_from_response" /\ ~Malformed(frame'.header)

\* the entries of a history that are not older than window_seconds at `time`
FreshEntries(history, time) ==
    SelectSeq(history, LAMBDA entry : entry[1] >= time - window_seconds)

\* C30: after every operation that computes the window, the timestamps of
\* weight_history are non-decreasing from oldest to newest and no entry is
\* older than window_seconds at the time the operation took; the
\* current_weight it computed is the sum over exactly the entries that were
\* not older than that.
C30_WindowWellFormed ==
    /\ [][ WindowStep
           => ( /\ frame'.current_time = now
                /\ \A i \in 1..Len(weight_history') :
                     weight_history'[i][1] >= now - window_seconds
                /\ \A i, j \in 1..Len(weight_history') :
                     i < j => weight_history'[i][1] <= weight_history'[j][1]
                /\ FreshEntries(weight_history, now)
                     = SubSeq(weight_history',
                              1, Len(FreshEntries(weight_history, now)))
                /\ (frame.stage # "sleeping")
                     => frame'.current_weight
                          = SumWeights(FreshEntries(weight_history, now)) ) ]_vars
    /\ [](\A i, j \in 1..Len(weight_history) :
             i < j => weight_history[i][1] <= weight_history[j][1])

\* get_statistics found two entries, dropped the one older than
\* window_seconds and kept the one exactly window_seconds old
C30_Witness ==
    /\ frame.op = "get_statistics"
    /\ frame.requests_before = 2
    /\ Len(weight_history) = 1
    /\ weight_history[1][1] = frame.current_time - window_seconds
    /\ frame.current_weight = weight_history[1][2]
    /\ now = frame.current_time

\* C22: wait_if_needed keeps the limiter's mutex for its whole execution, the
\* sleep included.  While a caller sleeps, no step of any other
\* wait_if_needed, update_from_response, get_statistics or reset_statistics
\* reads or changes the limiter: the only thing that happens to it is that the
\* sleeper, its wait over, wakes, returns and releases the mutex.
C22_SleepHoldsLock ==
    /\ [][ (rl_lock # NoThread)
           => \/ UNCHANGED <<weight_history, total_requests, total_weight_used,
                             wait_count, total_wait_time, rl_lock, frame>>
              \/ /\ frame.stage = "sleeping"
                 /\ now >= frame.current_time + frame.wait_time
                 /\ frame'.op = "wait_if_needed"
                 /\ frame'.stage = "returned"
                 /\ frame'.arg = frame.arg
                 /\ rl_lock' = NoThread ]_vars
    /\ [](rl_lock # NoThread <=> frame.stage = "sleeping")

\* a caller is half way through a sleep of two seconds, the mutex is its own
C22_Witness ==
    /\ rl_lock \in Threads
    /\ frame.op = "wait_if_needed"
    /\ frame.stage = "sleeping"
    /\ frame.wait_time = 2
    /\ now = frame.current_time + 1
    /\ wait_count = 1

\* recent_results of a breaker that has made its last `count` calls fail after
\* enough successful ones to fill the window
RECURSIVE FullWindow(_, _)
FullWindow(count, len) ==
    IF len = 0 THEN <<>>
    ELSE Append(FullWindow(count, len - 1), (len <= window_size - count))

\* C24: the trip decision depends on failure_count and failure_threshold
\* alone.  When a failure is recorded in a CLOSED breaker, the breaker ends in
\* the state in which a breaker with the same configuration and the same
\* failure_count, but a full recent_results, ends: OPEN exactly when the
\* count has reached the threshold.
C24_TripIgnoresWindow ==
    [][ (state = "CLOSED" /\ OperationFailed)
        => /\ (state' = "OPEN")
                <=> TripsOpen(FullWindow(failure_count', window_size), failure_count')
           /\ (state' = "OPEN") <=> (failure_count' >= failure_threshold) ]_vars

\* C21 as stated: no thread owns the manager lock and a breaker lock at the
\* same time.
C21_LocksNeverNested ==
    \A t \in Threads : ~(mgr_lock = t /\ cb_lock = t)

\* C21 amended: get_all_statistics and reset_all take a breaker's lock while
\* they hold the manager lock, and give it back before they release the
\* manager lock; get_breaker takes no breaker lock; and no thread takes the
\* manager lock while it holds a breaker lock, so the two are always taken in
\* the order manager, breaker.
C21_ManagerThenBreaker ==
    /\ [][ (cb_lock' # cb_lock /\ cb_lock' \in Threads)
           => ( /\ mgr_lock = cb_lock'
                /\ mgr_lock' = mgr_lock
                /\ mgr_frame.op \in {"get_all_statistics", "reset_all"} ) ]_vars
    /\ [][ (mgr_lock' # mgr_lock /\ mgr_lock' \in Threads)
           => (cb_lock = NoThread /\ cb_lock' = NoThread) ]_vars
    /\ [][ (mgr_lock' # mgr_lock /\ mgr_lock \in Threads)
           => (cb_lock # mgr_lock /\ cb_lock' = cb_lock) ]_vars
    /\ [][ (mgr_frame' # mgr_frame /\ mgr_frame'.op = "get_breaker")
           => (cb_lock = NoThread /\ cb_lock' = NoThread) ]_vars

\* reset_all, inside the manager lock, holds the lock of the breaker "api"
\* while a call on that breaker is in flight
C21_Witness ==
    /\ mgr_lock \in Threads
    /\ cb_lock = mgr_lock
    /\ mgr_frame.op = "reset_all"
    /\ breakers[TrackedName] # NoBreaker
    /\ \E t \in Threads : t # mgr_lock /\ pc[t] = "running"
    /\ total_failures >= 1

\* C25: start_engine on an engine marked running raises ValueError and leaves
\* the stored engine state as it was, and so does stop_engine on an engine that
\* is not running; a start that succeeds returns and stores running = TRUE with
\* a start_time, a stop that succeeds returns and stores running = FALSE with
\* start_time None.
C25_StartStopGuarded ==
    [][\A t \in Threads :
        /\ (StartEngine(t) /\ EnsureEngineState(engine_file).running)
             => /\ eng_frame'.op = "start_engine"
                /\ eng_frame'.raises = "ValueError"
                /\ engine_file' = engine_file
                /\ eng_pc'[t] = "idle"
        /\ (StopEngine(t) /\ ~EnsureEngineState(engine_file).running)
             => /\ eng_frame'.op = "stop_engine"
                /\ eng_frame'.raises = "ValueError"
                /\ engine_file' = engine_file
                /\ eng_pc'[t] = "idle"
        /\ (SetEngineState(t) /\ eng_pc[t] = "start_set")
             => /\ eng_frame'.op = "start_engine"
                /\ eng_frame'.raises = "none"
                /\ eng_frame'.ret.running
                /\ eng_frame'.ret.start_time # NoTime
                /\ engine_file' = eng_frame'.ret
        /\ (SetEngineState(t) /\ eng_pc[t] = "stop_set")
             => /\ eng_frame'.op = "stop_engine"
                /\ eng_frame'.raises = "none"
                /\ ~eng_frame'.ret.running
                /\ eng_frame'.ret.start_time = NoTime
                /\ engine_file' = eng_frame'.ret
    ]_vars

\* a stop was turned away after the engine that was found running in the file
\* had been stopped: nothing of the stopped state was touched
C25_Witness ==
    /\ eng_frame.op = "stop_engine"
    /\ eng_frame.raises = "ValueError"
    /\ \A t \in Threads : eng_pc[t] = "idle"
    /\ engine_file = [exists |-> TRUE, running |-> FALSE, start_time |-> NoTime,
                      version |-> "2.9.0"]

\* sockets in a channel's list (line 98 counts them)
Subscribers(c) == IF c \in DOMAIN subscriptions THEN Elements(subscriptions[c]) ELSE {}

\* C26: broadcast_to_channel delivers the message to exactly the sockets
\* subscribed to the channel: a socket that is not subscribed when a send takes
\* place gets nothing, a socket that stays subscribed during the whole
\* broadcast, and whose send does not raise, gets the message once and nobody
\* gets it twice; no list holds a socket twice; get_connection_count is the
\* number of accepted sockets that were not disconnected.
C26_ExactDelivery ==
    /\ [][\A ws \in Sockets :
            (bc.target \in Channels /\ bc'.received[ws] > bc.received[ws])
               => ws \in Subscribers(bc.target)]_vars
    /\ [][(bc.target \in Channels /\ bc.stage = "sending" /\ bc'.stage = "done")
            => \A ws \in Sockets :
                 /\ bc.received[ws] <= 1
                 /\ (ws \in bc.steady \ Elements(bc.disconnected))
                       => bc.received[ws] = 1]_vars
    /\ [](\A c \in DOMAIN subscriptions :
            Cardinality(Elements(subscriptions[c])) = Len(subscriptions[c]))
    /\ [](GetConnectionCount = Cardinality(accepted \ gone))

\* C31: recent_results never holds more than window_size outcomes; a recorded
\* success appends TRUE and a recorded failure appends FALSE at the end, after
\* the oldest outcome was dropped if the buffer was full; nothing else changes
\* the buffer except a reset, which empties it.
C31_BoundedFifo ==
    /\ [](Len(recent_results) <= window_size)
    /\ [][\A b \in BOOLEAN :
            (IF b THEN total_successes' = total_successes + 1
                  ELSE total_failures' = total_failures + 1)
              => recent_results' =
                   Append(IF Len(recent_results) = window_size
                          THEN SubSeq(recent_results, 2, window_size)
                          ELSE recent_results, b)]_vars
    /\ [][(total_successes' = total_successes /\ total_failures' = total_failures)
            => (recent_results' = recent_results \/ recent_results' = <<>>)]_vars

\* a full buffer of two has taken a third outcome: the oldest one is gone
C31_Witness ==
    /\ window_size = 2
    /\ total_successes + total_failures >= 3
    /\ recent_results = <<FALSE, TRUE>>

\* C32: the manager never constructs two breakers of one name; a name that is
\* registered stays bound to the same instance through every get_breaker,
\* get_all_statistics and reset_all; instances are only ever added; and
\* get_breaker returns the instance bound to the name it was asked for.
C32_OneInstancePerName ==
    /\ [](\A i, j \in 1..Len(heap) : heap[i].name = heap[j].name => i = j)
    /\ [](\A n \in Names : breakers[n] # NoBreaker => heap[breakers[n]].name = n)
    /\ [](mgr_frame.op = "get_breaker" => mgr_frame.ret = breakers[mgr_frame.name])
    /\ [][\A n \in Names : breakers[n] # NoBreaker => breakers'[n] = breakers[n]]_vars
    /\ [][heap' = heap \/ (Len(heap') = Len(heap) + 1 /\ SubSeq(heap', 1, Len(heap)) = heap)]_vars

\* reset_all has walked both registered breakers and returned; the instance
\* under "api", which has failures on record, is still the one created first
C32_Witness ==
    /\ mgr_frame.op = "reset_all"
    /\ mgr_frame.names = Names
    /\ mgr_lock = NoThread
    /\ breakers[TrackedName] = 1
    /\ breakers["ws"] = 2
    /\ total_failures >= 1

\* what an update_from_response step does besides logging: it prunes the
\* window, appends the adjustment entry if the usage is above the tracked
\* weight, and leaves every counter as it was
NoDiagnosticEffect ==
    LET history == CleanupOldEntries(weight_history, now)
    IN  /\ weight_history' =
             IF frame'.arg > SumWeights(history)
             THEN Append(history, <<now, frame'.arg - SumWeights(history)>>)
             ELSE history
        /\ UNCHANGED <<total_requests, total_weight_used, wait_count, total_wait_time>>

\* C33 as stated: the two diagnostics of update_from_response are independent:
\* the "high" one is logged exactly when the usage is above effective_limit and
\* the "critical" one exactly when it is above 90% of weight_limit, and neither
\* has an effect on weight_history or a counter.
C33_DiagnosticsIndependent ==
    [][ (UpdateStep /\ ~Malformed(frame'.header))
        => ( /\ (frame'.arg > effective_limit) => frame'.log = "high"
             /\ (10 * frame'.arg > 9 * weight_limit) => frame'.log = "critical"
             /\ NoDiagnosticEffect ) ]_vars

\* C33 amended: update_from_response logs at most one diagnostic: "critical"
\* whenever the usage is above 90% of weight_limit, "high" whenever it is above
\* effective_limit and not above 90% of weight_limit, none otherwise; the
\* diagnostic has no effect on weight_history or a counter.
C33_DiagnosticsTiered ==
    [][ (UpdateStep /\ ~Malformed(frame'.header))
        => ( /\ (10 * frame'.arg > 9 * weight_limit) <=> frame'.log = "critical"
             /\ (frame'.arg > effective_limit /\ 10 * frame'.arg <= 9 * weight_limit)
                  <=> frame'.log = "high"
             /\ NoDiagnosticEffect ) ]_vars

\* a usage of 50 against weight_limit 30 and effective_limit 24 is above both
\* thresholds and only the critical diagnostic was logged
C33_Witness ==
    /\ frame.op = "update_from_response"
    /\ frame.arg > effective_limit
    /\ 10 * frame.arg > 9 * weight_limit
    /\ frame.log = "critical"

\* C34: the breaker state changes only from CLOSED to OPEN when a failure is
\* recorded, from OPEN to HALF_OPEN when a call arrives after the cooldown,
\* from HALF_OPEN to OPEN when a failure is recorded, from HALF_OPEN to CLOSED
\* when a success is recorded, and from any state to CLOSED by a reset; a
\* success or failure recorded while OPEN leaves the state OPEN.
C34_TransitionEdges ==
    [][ /\ state' # state =>
             \/ /\ state = "CLOSED" /\ state' = "OPEN"
                /\ total_failures' = total_failures + 1
             \/ /\ state = "OPEN" /\ state' = "HALF_OPEN"
                /\ total_calls' = total_calls + 1
                /\ now - last_failure_time >= timeout
             \/ /\ state = "HALF_OPEN" /\ state' = "OPEN"
                /\ total_failures' = total_failures + 1
             \/ /\ state = "HALF_OPEN" /\ state' = "CLOSED"
                /\ total_successes' = total_successes + 1
             \/ /\ state' = "CLOSED"
                /\ UNCHANGED <<total_calls, total_successes, total_failures>>
                /\ recent_results' = <<>>
                /\ failure_count' = 0
                /\ success_count' = 0
        /\ (state = "OPEN" /\ (total_successes' # total_successes
                               \/ total_failures' # total_failures))
             => state' = "OPEN" ]_vars

\* a call admitted before the trip returned while the breaker was OPEN: its
\* success is the newest outcome on record and the breaker is still OPEN
C34_Witness ==
    /\ state = "OPEN"
    /\ recent_results # <<>>
    /\ recent_results[Len(recent_results)] = TRUE

\* C35 as stated: while the breaker stays OPEN, last_failure_time and
\* failure_count do not change, whatever call completes meanwhile, and a call
\* that arrives timeout seconds or more after the trip is admitted.
C35_DeadlineFixedWhileOpen ==
    [][ /\ (state = "OPEN" /\ state' = "OPEN")
             => /\ last_failure_time' = last_failure_time
                /\ failure_count' = failure_count
        /\ (state = "OPEN" /\ total_calls' = total_calls + 1
               /\ now - last_state_change >= timeout)
             => (state' = "HALF_OPEN" /\ total_rejections' = total_rejections) ]_vars

\* C35 amended: while the breaker stays OPEN, a failure recorded for a call
\* admitted earlier sets last_failure_time to the time of that failure and
\* adds one to failure_count, every other step leaves both as they were; a
\* call that arrives timeout seconds or more after the latest recorded failure
\* is admitted.
C35_DeadlineFollowsLastFailure ==
    [][ /\ (state = "OPEN" /\ state' = "OPEN")
             => IF total_failures' = total_failures + 1
                THEN /\ last_failure_time' = now
                     /\ failure_count' = failure_count + 1
                ELSE /\ last_failure_time' = last_failure_time
                     /\ failure_count' = failure_count
        /\ (state = "OPEN" /\ total_calls' = total_calls + 1
               /\ now - last_failure_time >= timeout)
             => (state' = "HALF_OPEN" /\ total_rejections' = total_rejections) ]_vars

\* the breaker is OPEN and its latest failure was recorded after the trip:
\* the deadline has moved
C35_Witness ==
    /\ state = "OPEN"
    /\ last_failure_time > last_state_change
    /\ failure_count > failure_threshold

\* thread t's call returns and its success is recorded
SuccessRecorded(t) ==
    /\ pc[t] = "running"
    /\ pc'[t] = "idle"
    /\ total_successes' = total_successes + 1

\* C36 as stated: the success of a call admitted while the breaker was CLOSED,
\* recorded when the breaker is HALF_OPEN, does not add to success_count and
\* does not close the breaker.
C36_OnlyTrialsRecover ==
    [][\A t \in Threads :
          (SuccessRecorded(t) /\ admitted_in[t] = "CLOSED" /\ state = "HALF_OPEN")
            => (success_count' = success_count /\ state' = "HALF_OPEN")]_vars

\* C36 amended: a success recorded while the breaker is HALF_OPEN counts
\* towards recovery whatever state its call was admitted in: it adds one to
\* success_count, or closes the breaker when that reaches success_threshold.
C36_AnySuccessRecovers ==
    [][\A t \in Threads :
          (SuccessRecorded(t) /\ admitted_in[t] \in {"CLOSED", "HALF_OPEN"}
             /\ state = "HALF_OPEN")
            => IF success_count + 1 >= success_threshold
               THEN state' = "CLOSED" /\ success_count' = 0
               ELSE state' = "HALF_OPEN" /\ success_count' = success_count + 1]_vars

\* the call that finished last had been admitted while CLOSED and returned
\* while the breaker was HALF_OPEN, where it has been counted
C36_Witness ==
    /\ state = "HALF_OPEN"
    /\ success_count >= 1
    /\ outcome.source = "returned"
    /\ outcome.admitted = "CLOSED"

\* the entries of a history that are at most window_seconds old at `time`
RECURSIVE InWindow(_, _)
InWindow(history, time) ==
    IF history = <<>> THEN <<>>
    ELSE IF history[1][1] >= time - window_seconds
      THEN <<history[1]>> \o InWindow(Tail(history), time)
      ELSE InWindow(Tail(history), time)

\* C37: with no request larger than effective_limit and no usage reported by
\* the server, whenever wait_if_needed records an entry the weights of the
\* entries of the trailing window, the new one included, add up to at most
\* effective_limit.
C37_AdmissionWithinLimit ==
    [][ total_requests' = total_requests + 1
        => SumWeights(InWindow(weight_history', now)) <= effective_limit ]_vars

C39_ResetKeepsStatistics ==
    /\ [][(/\ pc' = pc
           /\ state' = "CLOSED"
           /\ failure_count' = 0
           /\ success_count' = 0
           /\ recent_results' = <<>>)
          => /\ total_calls' = total_calls
             /\ total_successes' = total_successes
             /\ total_failures' = total_failures
             /\ total_rejections' = total_rejections
             /\ last_failure_time' = last_failure_time]_vars
    /\ [][/\ total_calls' >= total_calls
          /\ total_successes' >= total_successes
          /\ total_failures' >= total_failures
          /\ total_rejections' >= total_rejections]_vars

\* a breaker that tripped and rejected a call has been reset: it is CLOSED
\* again with an empty window and all its statistics still there
C39_Witness ==
    /\ breakers[TrackedName] # NoBreaker
    /\ state = "CLOSED"
    /\ recent_results = <<>>
    /\ failure_count = 0
    /\ total_rejections >= 1
    /\ total_successes >= 1
    /\ total_failures >= failure_threshold
    /\ total_calls >= total_successes + total_failures + total_rejections
    /\ last_failure_time # NoTime

\* C40: the running test and the write of start_engine are one atomic step, and
\* so are those of stop_engine: a start_engine that gets as far as its write
\* still finds the engine stopped, so of several concurrent starts only one
\* succeeds, and a stop_engine that gets as far as its write still finds the
\* engine running.
C40_CheckAndWriteAtomic ==
    [][\A t \in Threads :
        /\ (eng_pc[t] = "start_set" /\ eng_pc'[t] = "idle")
             => ~EnsureEngineState(engine_file).running
        /\ (eng_pc[t] = "stop_set" /\ eng_pc'[t] = "idle")
             => EnsureEngineState(engine_file).running
    ]_vars

====
